---------------------------- MODULE Spec2Model ----------------------------
(***************************************************************************)
(* A model of go-domaindb: the domain normalizer, the line loader, the     *)
(* source opener, the filesystem storage driver and the DomainDb engine    *)
(* (construction, refresh, queries, updaters, checkpoint writer, Close).   *)
(*                                                                         *)
(* Byte streams are sequences of one-character strings.  The input         *)
(* alphabets are ASCII; non-ASCII input (Punycode conversion, Unicode      *)
(* dots, zero-width characters) is outside the inputs enumerated here.     *)
(***************************************************************************)
EXTENDS Integers, Sequences, FiniteSets, TLC

(***************************************************************************)
(* Bounds of the model and constants of the program.                       *)
(***************************************************************************)
\* Longest URL body (in bytes) enumerated by the source-opener specification.
MaxBody == 2
\* The wall clock (Unix seconds) runs from 1 to MaxClock.
MaxClock == 2
\* loadDomainsFromReader: const maxFailures = 10.
maxFailures == 10
\* NewDomainDb: updates: make(chan dbUpdate, 8).
UpdatesCap == 8
\* NormalizeDomain: label length 1..63, total length <= 253.
MaxLabelLen == 63
MaxDomainLen == 253

(***************************************************************************)
(* Sequence helpers.                                                       *)
(***************************************************************************)
Min(S) == CHOOSE x \in S : \A y \in S : x <= y
Max(S) == CHOOSE x \in S : \A y \in S : x >= y

RECURSIVE SeqsUpTo(_, _)
SeqsUpTo(A, n) ==
  IF n = 0 THEN {<<>>}
  ELSE LET r == SeqsUpTo(A, n - 1)
       IN  r \cup {Append(s, a) : s \in {t \in r : Len(t) = n - 1}, a \in A}

RECURSIVE Concat(_)
Concat(ss) == IF ss = <<>> THEN <<>> ELSE Head(ss) \o Concat(Tail(ss))

\* strings.HasPrefix / strings.HasSuffix / strings.Contains for a one-or-two
\* character pattern given as a sequence.
HasPrefix(s, c) == Len(s) >= 1 /\ s[1] = c
HasSuffix(s, c) == Len(s) >= 1 /\ s[Len(s)] = c
ContainsPair(s, c, d) == \E i \in 1..(Len(s) - 1) : s[i] = c /\ s[i + 1] = d

\* strings.Split(s, "."): the labels between the dots (empty labels kept).
RECURSIVE SplitOn(_, _)
SplitOn(s, c) ==
  LET idx == {i \in 1..Len(s) : s[i] = c}
  IN  IF idx = {} THEN <<s>>
      ELSE <<SubSeq(s, 1, Min(idx) - 1)>>
             \o SplitOn(SubSeq(s, Min(idx) + 1, Len(s)), c)

(***************************************************************************)
(* The normalizer (normalize.DomainNormalizer).                            *)
(***************************************************************************)
NL == "\n"
CR == "\r"
UpperChars == <<"A", "B", "C", "D", "E", "F", "G", "H", "I", "J", "K", "L", "M",
                "N", "O", "P", "Q", "R", "S", "T", "U", "V", "W", "X", "Y", "Z">>
LowerChars == <<"a", "b", "c", "d", "e", "f", "g", "h", "i", "j", "k", "l", "m",
                "n", "o", "p", "q", "r", "s", "t", "u", "v", "w", "x", "y", "z">>
DigitChars == {"0", "1", "2", "3", "4", "5", "6", "7", "8", "9"}
LowerSet == {LowerChars[i] : i \in 1..26}
UpperSet == {UpperChars[i] : i \in 1..26}

\* unicode.IsSpace on ASCII: what strings.TrimSpace removes at both ends.
WhiteSpace == {" ", "\t", NL, CR}
\* stripInvisibleChars on ASCII: the C0 controls (and DEL) are dropped.
InvisibleChars == {"\t", NL, CR}

ToLowerChar(c) ==
  IF c \in UpperSet THEN LowerChars[CHOOSE i \in 1..26 : UpperChars[i] = c] ELSE c
ToLower(s) == [i \in 1..Len(s) |-> ToLowerChar(s[i])]

TrimSpace(s) ==
  LET keep == {i \in 1..Len(s) : s[i] \notin WhiteSpace}
  IN  IF keep = {} THEN <<>> ELSE SubSeq(s, Min(keep), Max(keep))

stripInvisibleChars(s) == SelectSeq(s, LAMBDA c : c \notin InvisibleChars)

RECURSIVE TrimLeadingDots(_)
TrimLeadingDots(s) ==
  IF HasPrefix(s, ".") THEN TrimLeadingDots(Tail(s)) ELSE s

RECURSIVE TrimTrailingDots(_)
TrimTrailingDots(s) ==
  IF HasSuffix(s, ".") THEN TrimTrailingDots(SubSeq(s, 1, Len(s) - 1)) ELSE s

isAlnum(b) == b \in LowerSet \/ b \in DigitChars

StartsWithXn(lbl) ==
  Len(lbl) >= 4 /\ SubSeq(lbl, 1, 4) = <<"x", "n", "-", "-">>

isLDHOrPunycode(lbl) ==
  /\ Len(lbl) # 0
  /\ isAlnum(lbl[Len(lbl)])
  /\ (isAlnum(lbl[1]) \/ StartsWithXn(lbl))
  /\ \A i \in 1..Len(lbl) : lbl[i] \in LowerSet \cup DigitChars \cup {"-"}

\* profile.ToASCII on ASCII input under the configured UTS #46 profile
\* (MapForLookup, STD3 rules, label validation with the hyphen checks, DNS
\* length verification): upper case is mapped to lower case; a label with a
\* character outside letters/digits/hyphen, with a leading or trailing hyphen,
\* with hyphens in the third and fourth place (unless it starts with xn--), an
\* empty label or an over-long label or name is an error.
ToASCIIOk(s) ==
  LET m == ToLower(s)
      labels == SplitOn(m, ".")
  IN  /\ Len(m) <= MaxDomainLen
      /\ \A k \in 1..Len(labels) :
           LET l == labels[k]
           IN  /\ Len(l) >= 1
               /\ Len(l) <= MaxLabelLen
               /\ \A i \in 1..Len(l) : l[i] \in LowerSet \cup DigitChars \cup {"-"}
               /\ l[1] # "-"
               /\ l[Len(l)] # "-"
               /\ (Len(l) >= 4 /\ l[3] = "-" /\ l[4] = "-") => StartsWithXn(l)
ToASCII(s) == ToLower(s)

\* The value NormalizeDomain returns with a non-nil error.
NormErr == <<"error">>
\* NormalizeDomain has not been called.
NotCalled == <<"pending">>
\* No direct WriteDatabase or ReadDatabase call.
NoNameCall == [st |-> "none"]
\* No DownloadAndLoadDatabase call followed goroutine by goroutine.
NoDownload == [lpc |-> "none"]

\* Steps of NormalizeDomain after the trailing FQDN dot has been removed.
RejectRemainingDots(s) == TrimTrailingDots(TrimLeadingDots(s))

NormalizeDomain(input) ==
  LET s1 == TrimSpace(input)
      s2 == stripInvisibleChars(s1)
      s3 == IF HasSuffix(s2, ".") THEN SubSeq(s2, 1, Len(s2) - 1) ELSE s2
      s4 == RejectRemainingDots(s3)
      parts == SplitOn(s4, ".")
      ascii == ToLower(ToASCII(s4))
      labels == SplitOn(ascii, ".")
  IN  IF s1 = <<>> THEN NormErr
      ELSE IF s2 = <<>> THEN NormErr
      ELSE IF s3 = <<>> THEN NormErr
      ELSE IF ContainsPair(s4, ".", ".") THEN NormErr
      ELSE IF \E k \in 1..Len(parts) : parts[k] = <<>> THEN NormErr
      ELSE IF ~ToASCIIOk(s4) THEN NormErr
      ELSE IF \E k \in 1..Len(labels) :
                \/ Len(labels[k]) = 0
                \/ Len(labels[k]) > MaxLabelLen
                \/ ~isLDHOrPunycode(labels[k]) THEN NormErr
      ELSE IF Len(ascii) > MaxDomainLen THEN NormErr
      ELSE ascii

\* The results of NormalizeDomain for the short lines, computed once.
TabulatedLines == SeqsUpTo({"a", "b", "c", "A", "B", "_"}, 2)
NormTable == [l \in TabulatedLines |-> NormalizeDomain(l)]

\* NormalizeDomainName delegates to a fresh DomainNormalizer.
NormalizeDomainName(domain) ==
  IF domain \in TabulatedLines THEN NormTable[domain] ELSE NormalizeDomain(domain)


(***************************************************************************)
(* The loader's scan (bufio.Scanner with ScanLines, and the loop of        *)
(* loadDomainsFromReader).                                                 *)
(***************************************************************************)
dropCR(data) ==
  IF HasSuffix(data, CR) THEN SubSeq(data, 1, Len(data) - 1) ELSE data

\* The tokens bufio.ScanLines yields for a stream: the text between
\* newlines, without a trailing carriage return; a last line that has no
\* newline is a token when it is not empty.  A read error ends the stream
\* like EOF does (the loader never looks at scanner.Err()).
RECURSIVE ScanLines(_)
ScanLines(data) ==
  LET idx == {i \in 1..Len(data) : data[i] = NL}
  IN  IF data = <<>> THEN <<>>
      ELSE IF idx = {} THEN <<dropCR(data)>>
      ELSE <<dropCR(SubSeq(data, 1, Min(idx) - 1))>>
             \o ScanLines(SubSeq(data, Min(idx) + 1, Len(data)))

\* Number of bytes of data the scanner has consumed once it has returned k tokens.
RECURSIVE ConsumedLen(_, _)
ConsumedLen(data, k) ==
  LET idx == {i \in 1..Len(data) : data[i] = NL}
  IN  IF k = 0 \/ data = <<>> THEN 0
      ELSE IF idx = {} THEN Len(data)
      ELSE Min(idx) + ConsumedLen(SubSeq(data, Min(idx) + 1, Len(data)), k - 1)

\* The loader's locals: domains, goodLines and len(failures).
NewLoadState == [domains |-> {}, goodLines |-> 0, failures |-> 0]

\* A loader that stores the line as it was read, not its normalized form.
LoadLineStepRaw(st, line) ==
  IF line = <<>> \/ line[1] = "#" THEN st
  ELSE IF NormalizeDomainName(line) = NormErr
       THEN [st EXCEPT !.failures = @ + 1]
       ELSE [st EXCEPT !.domains = @ \cup {line}, !.goodLines = @ + 1]

\* A loader that counts an empty line or a comment as a good line.
LoadLineStepCountsSkipped(st, line) ==
  IF line = <<>> \/ line[1] = "#" THEN [st EXCEPT !.goodLines = @ + 1]
  ELSE LET normalized == NormalizeDomainName(line)
       IN  IF normalized = NormErr
           THEN [st EXCEPT !.failures = @ + 1]
           ELSE [st EXCEPT !.domains = @ \cup {normalized}, !.goodLines = @ + 1]

\* One iteration of the scan loop on the line the scanner returned.
LoadLineStep(st, line) ==
  IF line = <<>> \/ line[1] = "#" THEN st
  ELSE LET normalized == NormalizeDomainName(line)
       IN  IF normalized = NormErr
           THEN [st EXCEPT !.failures = @ + 1]
           ELSE [st EXCEPT !.domains = @ \cup {normalized}, !.goodLines = @ + 1]

\* A loop that scans to the end of the stream whatever the failure count.
ScanContinuesToEof(lines, i, st) == i < Len(lines)

\* for scanner.Scan() && len(failures) < maxFailures
ScanContinues(lines, i, st) == i < Len(lines) /\ st.failures < maxFailures

RECURSIVE ScanLoop(_, _, _)
ScanLoop(lines, i, st) ==
  IF ScanContinues(lines, i, st)
  THEN ScanLoop(lines, i + 1, LoadLineStep(st, lines[i + 1]))
  ELSE st

\* A failure check that also rejects a tie.
TooManyFailuresOrTie(st) == st.failures >= st.goodLines

\* if len(failures) > goodLines { return error }
TooManyFailures(st) == st.failures > st.goodLines

\* A loader that adds to the live set instead of replacing it.
SwapDomainsMerge(old, domains) == old \cup domains

\* A swap that keeps the set that was installed before.
SwapDomainsKeep(old, domains) == old

\* data.Domains = domains, under data.Mu.Lock().
SwapDomains(old, domains) == domains

\* The whole of loadDomainsFromReader on a stream, as a function.
LoadResult(data) == ScanLoop(ScanLines(data), 0, NewLoadState)

(***************************************************************************)
(* The source opener (openDataSource).                                     *)
(***************************************************************************)
\* What one URL of a URL-mode source can do: the request fails ("neterr"),
\* the status is not 200 ("status"), the body is copied whole ("ok"), or the
\* copy fails after some bytes of the body ("copyerr").  written holds the
\* bytes io.Copy wrote to the pipe.
UrlOutcomes(B) ==
  {[kind |-> k, written |-> b] : k \in {"ok", "copyerr"}, b \in B}
    \cup {[kind |-> k, written |-> <<>>] : k \in {"neterr", "status"}}

UrlFailed(o) == o.kind # "ok"

\* The bytes one URL contributes: what was copied, then the newline that is
\* written after every URL.
UrlBytes(o) == o.written \o <<NL>>

\* A producer that closes the pipe with the error when any URL failed.
AnyUrlFailed(outs) == \E k \in 1..Len(outs) : UrlFailed(outs[k])

\* len(failures) == len(src.Urls): the pipe is closed with ErrAllUrlsFailed.
AllUrlsFailed(outs) == \A k \in 1..Len(outs) : UrlFailed(outs[k])

\* The stream the producer goroutine writes for the URLs, in order.
UrlStream(outs) == Concat([k \in 1..Len(outs) |-> UrlBytes(outs[k])])

NoOuts == <<>>

\* An opener that hands out an empty stream when no source is configured.
openDataSourceLenient(kind, getOut, outs) ==
  IF kind = "get"
  THEN IF getOut.err
       THEN [err |-> "geterr", bytes |-> <<>>, srcErr |-> FALSE, outs |-> NoOuts]
       ELSE [err |-> "", bytes |-> getOut.bytes, srcErr |-> FALSE, outs |-> NoOuts]
  ELSE IF kind = "urls"
  THEN [err |-> "", bytes |-> UrlStream(outs), srcErr |-> AllUrlsFailed(outs),
        outs |-> outs]
  ELSE [err |-> "", bytes |-> <<>>, srcErr |-> FALSE, outs |-> NoOuts]

\* openDataSource for a source of the given kind: Get takes precedence, then
\* the URLs, else ErrDataSourceNoSource.  getOut is what src.Get() returns
\* (an error, or a reader with its bytes), outs what the URLs do.
openDataSource(kind, getOut, outs) ==
  IF kind = "get"
  THEN IF getOut.err
       THEN [err |-> "geterr", bytes |-> <<>>, srcErr |-> FALSE, outs |-> NoOuts]
       ELSE [err |-> "", bytes |-> getOut.bytes, srcErr |-> FALSE, outs |-> NoOuts]
  ELSE IF kind = "urls"
  THEN [err |-> "", bytes |-> UrlStream(outs), srcErr |-> AllUrlsFailed(outs),
        outs |-> outs]
  ELSE [err |-> "nosource", bytes |-> <<>>, srcErr |-> FALSE, outs |-> NoOuts]

(***************************************************************************)
(* The engine: configuration, storage and DomainDb state.                  *)
(***************************************************************************)
\* The configured database names (Options.Sources) and one name that is not
\* configured (it can appear in a checkpoints document and in calls).
Names == {"disposable"}
OtherName == "other"
CpNames == Names \cup {OtherName}

\* Number of URLs of a URL-mode source.
NumUrls == 2
\* DataSource.RefreshInterval of every source, in seconds.
RefreshInterval == 1
\* Forced refreshes (DownloadAndLoadDatabase called by the user) per run.
MaxUserCalls == 2

\* The goroutines that run a load: the setup function of NewDomainDb, a user
\* calling DownloadAndLoadDatabase, and the updater of each name (named by it).
SetupProc == "setup"
UserProc == "user"
Procs == Names \cup {SetupProc, UserProc}

\* Contents used by the engine specification: a valid line, an upper-case
\* valid line without a final newline, and a line that does not normalize.
BodyA == <<"a", NL>>
BodyB == <<"B">>
BodyBad == <<"_", NL>>
\* What the URLs of a source do in the engine specification: the first
\* serves BodyA or BodyBad, the second BodyB, and either can fail.
EngineUrlOuts ==
  {<<o1, o2>> :
     o1 \in {[kind |-> "ok", written |-> BodyA], [kind |-> "ok", written |-> BodyBad],
             [kind |-> "neterr", written |-> <<>>]},
     o2 \in {[kind |-> "ok", written |-> BodyB], [kind |-> "status", written |-> <<>>]}}
EngineGetOuts ==
  {[err |-> TRUE, bytes |-> <<>>], [err |-> FALSE, bytes |-> BodyA],
   [err |-> FALSE, bytes |-> <<>>]}
\* The environment of a refresh: what src.Get() returns and what the URLs do.
EngineEnv == [get : EngineGetOuts, urls : EngineUrlOuts]
QueryDomains == {<<"A">>, <<"c">>, <<"_">>}

\* A file of the data directory.
NoFile == [st |-> "absent", bytes |-> <<>>]
FileOf(b) == [st |-> "ok", bytes |-> b]
\* A file whose scan stops early: as many good lines as the loader tolerates
\* failures, that many failing lines, and one more good line.
RECURSIVE Repeat(_, _)
Repeat(b, k) == IF k = 0 THEN <<>> ELSE b \o Repeat(b, k - 1)
CapBytes == Repeat(BodyA, maxFailures) \o Repeat(BodyBad, maxFailures) \o <<"c", NL>>
MixedBytes == <<"A", NL, "#", "b", NL, "_", NL, "c">>
InitFiles ==
  {NoFile, FileOf(MixedBytes), FileOf(CapBytes), FileOf(BodyBad),
   [st |-> "unreadable", bytes |-> BodyA]}

\* A checkpoints document: LastUpdatedUnix per name, NoEntry for no entry.
NoEntry == -1
EmptyCheckpoints == [n \in CpNames |-> NoEntry]
InitCheckpointDocs ==
  {[n \in CpNames |-> IF n \in Names THEN NoEntry ELSE 1]}
\* Also a file with entries of the configured names.
SetupCheckpointDocs ==
  InitCheckpointDocs \cup {[n \in CpNames |-> IF n \in Names THEN 2 ELSE 1]}

(***************************************************************************)
(* checkpoints.json: the JSON encoding of a checkpoints document and its   *)
(* decoding.  A file is a sequence of tokens; a key, a punctuation mark,   *)
(* a digit and the final newline are one token each.                       *)
(***************************************************************************)
DigitSeq == <<"0", "1", "2", "3", "4", "5", "6", "7", "8", "9">>

\* The decimal digits of a number that is not negative.
RECURSIVE DigitsOf(_)
DigitsOf(v) ==
  IF v < 10 THEN <<DigitSeq[v + 1]>>
  ELSE DigitsOf(v \div 10) \o <<DigitSeq[(v % 10) + 1]>>

DigitValue(c) == CHOOSE k \in 0..9 : DigitSeq[k + 1] = c

RECURSIVE NumberOf(_)
NumberOf(ds) ==
  IF ds = <<>> THEN 0
  ELSE 10 * NumberOf(SubSeq(ds, 1, Len(ds) - 1)) + DigitValue(ds[Len(ds)])

\* The keys of the Checkpoints map in the order the encoder writes them
\* (sorted), and those of them that have an entry in doc.
SortedCpNames == <<"disposable", "other">>
EntryNames(doc) == SelectSeq(SortedCpNames, LAMBDA n : doc[n] # NoEntry)

SerializeEntry(n, v) ==
  <<n, ":", "{", "LastUpdatedUnix", ":">> \o DigitsOf(v) \o <<"}">>

RECURSIVE SerializeEntries(_, _)
SerializeEntries(doc, ns) ==
  IF ns = <<>> THEN <<>>
  ELSE SerializeEntry(Head(ns), doc[Head(ns)])
         \o (IF Len(ns) > 1 THEN <<",">> ELSE <<>>)
         \o SerializeEntries(doc, Tail(ns))

\* json.NewEncoder(file).Encode(checkpoints): the object and a newline.
Serialize(doc) ==
  <<"{", "Checkpoints", ":", "{">>
    \o SerializeEntries(doc, EntryNames(doc))
    \o <<"}", "}", NL>>

\* A checkpoints.json that is not JSON.
BadCheckpointBytes == <<"{">>

At(b, i) == IF i >= 1 /\ i <= Len(b) THEN b[i] ELSE "EOF"

\* The position after the digits that start at i.
RECURSIVE DigitsEnd(_, _)
DigitsEnd(b, i) == IF At(b, i) \in DigitChars THEN DigitsEnd(b, i + 1) ELSE i

BadParse == [ok |-> FALSE, doc |-> EmptyCheckpoints]

\* The entries of the Checkpoints object from position i on, up to the end
\* of the outer object; what follows the outer object is not looked at.
RECURSIVE ParseEntries(_, _, _)
ParseEntries(b, i, doc) ==
  LET j == DigitsEnd(b, i + 5)
      wellFormed ==
        /\ At(b, i) \in CpNames
        /\ At(b, i + 1) = ":" /\ At(b, i + 2) = "{"
        /\ At(b, i + 3) = "LastUpdatedUnix" /\ At(b, i + 4) = ":"
        /\ j > i + 5
        /\ ~(j > i + 6 /\ At(b, i + 5) = "0")
        /\ At(b, j) = "}"
  IN  IF ~wellFormed THEN BadParse
      ELSE LET d == [doc EXCEPT ![b[i]] = NumberOf(SubSeq(b, i + 5, j - 1))]
           IN  IF At(b, j + 1) = "," THEN ParseEntries(b, j + 2, d)
               ELSE IF At(b, j + 1) = "}" /\ At(b, j + 2) = "}"
               THEN [ok |-> TRUE, doc |-> d]
               ELSE BadParse

\* json.NewDecoder(file).Decode(&res): the first JSON value of the file.
ParseCheckpoints(b) ==
  IF ~(Len(b) >= 4 /\ SubSeq(b, 1, 4) = <<"{", "Checkpoints", ":", "{">>)
  THEN BadParse
  ELSE IF At(b, 5) = "}"
  THEN (IF At(b, 6) = "}" THEN [ok |-> TRUE, doc |-> EmptyCheckpoints] ELSE BadParse)
  ELSE ParseEntries(b, 5, EmptyCheckpoints)

\* A ReadCheckpoints that gives the empty document, without an error, when
\* there is no file.
ReadCheckpointsEmptyIfMissing(disk) ==
  IF disk.st = "absent" THEN [err |-> "", doc |-> EmptyCheckpoints]
  ELSE IF ParseCheckpoints(disk.bytes).ok
  THEN [err |-> "", doc |-> ParseCheckpoints(disk.bytes).doc]
  ELSE [err |-> "decode", doc |-> EmptyCheckpoints]

\* FsStorageDriver.ReadCheckpoints: ENOENT when there is no file, else the
\* decoded document or the decoding error.  doc is the document NewDomainDb
\* goes on with.
ReadCheckpoints(disk) ==
  IF disk.st = "absent" THEN [err |-> "notfound", doc |-> EmptyCheckpoints]
  ELSE IF ParseCheckpoints(disk.bytes).ok
  THEN [err |-> "", doc |-> ParseCheckpoints(disk.bytes).doc]
  ELSE [err |-> "decode", doc |-> EmptyCheckpoints]

\* No direct call of the storage driver was made yet.
NoRead == [err |-> "pending", doc |-> EmptyCheckpoints]
NoWrite == [st |-> "none", doc |-> EmptyCheckpoints]

VARIABLES
  opts,            \* Options: DisableDownload, LoadDatabasesInBackground
  srcKind,         \* per name: "get", "urls" or "none" (what the DataSource has)
  cpDisk,          \* the file checkpoints.json
  dbDisk,          \* per name: the primary database file
  bakDisk,         \* per name: the .bak file
  now,             \* time.Now().Unix()
  spc,             \* where NewDomainDb / setup is
  todo,            \* names the first loop of setup has not visited
  cur,             \* the name the first loop of setup is loading
  alreadyHad,      \* alreadyHadCheckpoints
  checkpoints,     \* the in-memory checkpoints document
  toCloseNil,      \* toClose holds a nil reader
  ret,             \* what NewDomainDb returned
  setupErr,        \* the error setup returned ("" for nil)
  crashed,         \* the process died of a panic
  isRunning,       \* DomainDb.isRunning
  dbsNil,          \* DomainDb.dbs == nil
  Domains,         \* per name: dbSrcMap.Domains
  LastUpdatedUnix, \* per name: dbSrcMap.LastUpdatedUnix
  updates,         \* DomainDb.updates, the buffered channel
  chanClosed,      \* the updates channel is closed
  cw,              \* the checkpoint-writer goroutine
  upc,             \* per name: where the updater goroutine is
  ticking,         \* per name: the updater has created its ticker
  due,             \* per name: when the updater's timer or ticker fires next
  rf,              \* per process: the load it is running
  wr,              \* per process: the storage-writer goroutine of its refresh
  q,               \* the last DoesDbHaveDomain call and its answer
  userRes,         \* what the last forced DownloadAndLoadDatabase returned
  calls,           \* forced refreshes started so far
  installed,       \* per name: the complete sets installed so far (history)
  cpRead,          \* what the last direct ReadCheckpoints call returned
  cpLast,          \* the document of the last direct WriteCheckpoints call
  normIn,          \* the argument of a direct NormalizeDomain call
  normOut,         \* what that call returned
  nm,              \* a direct WriteDatabase or ReadDatabase call and its directory
  dl               \* one DownloadAndLoadDatabase call, its goroutines and its two pipes

cfgVars == <<opts, srcKind>>
diskVars == <<cpDisk, dbDisk, bakDisk>>
setupVars == <<spc, todo, cur, alreadyHad, toCloseNil, ret, setupErr>>
engVars == <<isRunning, dbsNil, LastUpdatedUnix>>
chanVars == <<updates, chanClosed, cw>>
updVars == <<upc, ticking, due>>
userVars == <<q, userRes, calls>>
drvVars == <<cpRead, cpLast, normIn, normOut, nm, dl>>
vars == <<cfgVars, diskVars, setupVars, engVars, chanVars, updVars, userVars,
          drvVars, now, checkpoints, crashed, Domains, rf, wr, installed>>

RfIdle ==
  [pc |-> "idle", kind |-> "", name |-> "", view |-> <<>>, srcErr |-> FALSE,
   outs |-> NoOuts, cut |-> FALSE, i |-> 0, st |-> NewLoadState,
   data |-> "unset", res |-> ""]
RfCall(n) == [RfIdle EXCEPT !.kind = "dl", !.name = n]
RfDone(r, res) ==
  [RfIdle EXCEPT !.pc = "done", !.kind = r.kind, !.name = r.name,
                 !.srcErr = r.srcErr, !.outs = r.outs, !.cut = r.cut,
                 !.res = res]
WrNone ==
  [pc |-> "none", name |-> "", backedUp |-> FALSE, closed |-> "", bytes |-> <<>>,
   fd |-> "", before |-> NoFile]

NotReturned == [st |-> "pending", inst |-> FALSE, err |-> ""]
Returned(inst, err) == [st |-> "returned", inst |-> inst, err |-> err]
NoQuery == [st |-> "none", name |-> "", dom |-> <<>>, err |-> "", has |-> FALSE,
            seen |-> {}]

\* The state after construction of the engine's inputs: every configuration
\* and every state of the data directory, nothing called yet.
EngineInitFrom(docs) ==
  /\ opts \in [disableDl : BOOLEAN, background : BOOLEAN]
  /\ srcKind \in [Names -> {"get", "urls", "none"}]
  /\ cpDisk \in {NoFile, FileOf(BadCheckpointBytes)}
                  \cup {FileOf(Serialize(d)) : d \in docs}
  /\ dbDisk \in [Names -> InitFiles]
  /\ bakDisk = [n \in Names |-> NoFile]
  /\ now = 1
  /\ spc = "new"
  /\ todo = Names
  /\ cur = ""
  /\ alreadyHad = FALSE
  /\ checkpoints = EmptyCheckpoints
  /\ toCloseNil = FALSE
  /\ ret = NotReturned
  /\ setupErr = ""
  /\ crashed = FALSE
  /\ isRunning = TRUE
  /\ dbsNil = FALSE
  /\ Domains = [n \in Names |-> {}]
  /\ LastUpdatedUnix = [n \in Names |-> 0]
  /\ updates = <<>>
  /\ chanClosed = FALSE
  /\ cw = "off"
  /\ upc = [n \in Names |-> "off"]
  /\ ticking = [n \in Names |-> FALSE]
  /\ due = [n \in Names |-> 0]
  /\ rf = [p \in Procs |-> RfIdle]
  /\ wr = [p \in Procs |-> WrNone]
  /\ q = NoQuery
  /\ userRes = ""
  /\ calls = 0
  /\ installed = [n \in Names |-> {{}}]
  /\ cpRead = NoRead
  /\ cpLast = NoWrite

EngineInit == EngineInitFrom(InitCheckpointDocs)

Init ==
  /\ EngineInit
  /\ normIn = <<>>
  /\ normOut = NotCalled
  /\ nm = NoNameCall
  /\ dl = NoDownload

(***************************************************************************)
(* DownloadAndLoadDatabase and loadDomainsFromReader, step by step.        *)
(***************************************************************************)
\* DownloadAndLoadDatabase up to the start of the load: the lookup of the
\* name, openDataSource, the pipe and the writer goroutine.  E is the set of
\* things the environment of the source can do.
RefreshCall(p, n, E) ==
  /\ rf[p].pc = "idle"
  /\ wr[p].pc = "none"
  /\ IF dbsNil \/ n \notin Names
     THEN /\ rf' = [rf EXCEPT ![p] = RfDone(RfCall(n), "nosuchdb")]
          /\ wr' = wr
     ELSE \E env \in E :
            LET src == openDataSource(srcKind[n], env.get, env.urls)
            IN  IF src.err # ""
                THEN /\ rf' = [rf EXCEPT ![p] = RfDone(RfCall(n), src.err)]
                     /\ wr' = wr
                ELSE /\ rf' = [rf EXCEPT ![p] =
                           [RfIdle EXCEPT !.pc = "load", !.kind = "dl", !.name = n,
                                          !.view = src.bytes, !.srcErr = src.srcErr,
                                          !.outs = src.outs]]
                     /\ wr' = [wr EXCEPT ![p] = [WrNone EXCEPT !.pc = "new", !.name = n]]

\* A write of b at offset 0 of a file that holds old: the file is opened
\* without O_TRUNC, so what old has beyond the written bytes stays.
Overlay(old, b) == b \o SubSeq(old, Len(b) + 1, Len(old))

\* The name under which an open file is found after os.Rename(from, to): the
\* file that was at to is unlinked, the one at from is now at to.
FdAfterRename(fd, from, to) ==
  IF fd = from THEN to ELSE IF fd = to THEN "gone" ELSE fd

\* What the open files of the writers of n other than p are called after p
\* renamed from to to (or did not rename).
OthersAfterRename(p, n, renamed, from, to) ==
  [w \in Procs |->
     IF w # p /\ renamed /\ wr[w].name = n
     THEN [wr[w] EXCEPT !.fd = FdAfterRename(@, from, to)]
     ELSE wr[w]]

\* The loader's view of the stream when the writer returns early: the
\* deferred input.Close() makes the tee's next write fail, so the loader
\* sees the first chunk it read (k bytes) and then a read error.
ViewAfterWriter(p, n, failed, k) ==
  IF failed /\ rf[p].pc = "load" /\ rf[p].name = n /\ rf[p].view # <<>>
  THEN [rf EXCEPT ![p].view = SubSeq(@, 1, k), ![p].cut = TRUE]
  ELSE rf

CutLens(p, n, failed) ==
  IF failed /\ rf[p].pc = "load" /\ rf[p].name = n /\ rf[p].view # <<>>
  THEN 1..Len(rf[p].view) ELSE {0}

\* FsStorageDriver.WriteDatabase up to the open: os.Stat, and the rename of
\* an existing file to the backup.  fault is what the file system does:
\* "rename" makes the call return early.
WriteDatabaseBegin(p, fault, k) ==
  LET n == wr[p].name
      exists == dbDisk[n].st # "absent"
      failed == fault = "rename"
      renamed == exists /\ ~failed
  IN  /\ wr[p].pc = "new"
      /\ fault \in {"none", "rename"}
      /\ failed => exists
      /\ k \in CutLens(p, n, failed)
      /\ wr' = [OthersAfterRename(p, n, renamed, "primary", "bak") EXCEPT
                  ![p].pc = IF failed THEN "failed" ELSE "statted",
                  ![p].backedUp = renamed,
                  ![p].before = dbDisk[n]]
      /\ rf' = ViewAfterWriter(p, n, failed, k)
      /\ IF renamed
         THEN /\ bakDisk' = [bakDisk EXCEPT ![n] = dbDisk[n]]
              /\ dbDisk' = [dbDisk EXCEPT ![n] = NoFile]
         ELSE UNCHANGED <<dbDisk, bakDisk>>

\* A WriteDatabase without the deferred restore.
RestoresNever(p) == FALSE

\* The deferred function of WriteDatabase when it returns an error: the
\* backup, if this call made one and it is still there, is renamed back.
Restores(p) == wr[p].backedUp /\ bakDisk[wr[p].name].st # "absent"

\* os.OpenFile(filePath, O_CREATE|O_WRONLY): the file is created when there
\* is none, else the existing one is opened as it is.  The fault "open" makes
\* the call return early, through the deferred restore.
WriteDatabaseOpen(p, fault, k) ==
  LET n == wr[p].name
      failed == fault = "open"
  IN  /\ wr[p].pc = "statted"
      /\ fault \in {"none", "open"}
      /\ k \in CutLens(p, n, failed)
      /\ rf' = ViewAfterWriter(p, n, failed, k)
      /\ IF failed
         THEN /\ wr' = [OthersAfterRename(p, n, Restores(p), "bak", "primary")
                          EXCEPT ![p].pc = "failed"]
              /\ IF Restores(p)
                 THEN /\ dbDisk' = [dbDisk EXCEPT ![n] = bakDisk[n]]
                      /\ bakDisk' = [bakDisk EXCEPT ![n] = NoFile]
                 ELSE UNCHANGED <<dbDisk, bakDisk>>
         ELSE /\ wr' = [wr EXCEPT ![p].pc = "open", ![p].fd = "primary"]
              /\ dbDisk' = IF dbDisk[n].st = "absent"
                           THEN [dbDisk EXCEPT ![n] = FileOf(<<>>)]
                           ELSE dbDisk
              /\ bakDisk' = bakDisk

\* The loader may read once the writer takes the tee's bytes (or has closed
\* its end); an empty stream needs no write.
CanRead(p) ==
  rf[p].kind = "cache" \/ wr[p].pc \in {"open", "failed"} \/ rf[p].view = <<>>

\* data := s.dbs[name], read by the loader when it starts.
DataOf(p) ==
  IF rf[p].data = "unset" THEN (IF dbsNil THEN "nil" ELSE "ok") ELSE rf[p].data

\* One iteration of the loader's scan loop.
LoadLine(p) ==
  LET lines == ScanLines(rf[p].view)
  IN  /\ rf[p].pc = "load"
      /\ CanRead(p)
      /\ ScanContinues(lines, rf[p].i, rf[p].st)
      /\ rf' = [rf EXCEPT ![p].i = @ + 1,
                          ![p].st = LoadLineStep(@, lines[rf[p].i + 1]),
                          ![p].data = DataOf(p)]

\* The bytes the scanner can have read when the loop ends after i lines: the
\* whole stream when Scan returned false, else at least the lines it returned
\* (the loop calls Scan once more before it looks at the failure count).
ReadLens(view, i, st) ==
  IF i >= Len(ScanLines(view)) THEN {Len(view)}
  ELSE ConsumedLen(view, i + 1)..Len(view)

\* The end of loadDomainsFromReader and what DownloadAndLoadDatabase does
\* next: the failure check, else the swap under the write lock; the pipe to
\* the storage writer is closed (with the error, or cleanly).
LoadEnd(p, readLen) ==
  LET r == rf[p]
      n == r.name
      lines == ScanLines(r.view)
      read == SubSeq(r.view, 1, readLen)
  IN  /\ r.pc = "load"
      /\ CanRead(p)
      /\ ~ScanContinues(lines, r.i, r.st)
      /\ readLen \in ReadLens(r.view, r.i, r.st)
      /\ IF TooManyFailures(r.st)
         THEN /\ rf' = [rf EXCEPT ![p] = RfDone(r, "parse")]
              /\ wr' = IF r.kind = "dl"
                       THEN [wr EXCEPT ![p].closed = "err", ![p].bytes = read]
                       ELSE wr
              /\ UNCHANGED <<Domains, installed, crashed>>
         ELSE IF DataOf(p) = "nil"
         THEN \* data is nil: data.Mu.Lock() dereferences a nil pointer
              /\ crashed' = TRUE
              /\ UNCHANGED <<rf, wr, Domains, installed>>
         ELSE /\ Domains' = [Domains EXCEPT ![n] = SwapDomains(@, r.st.domains)]
              /\ installed' = [installed EXCEPT
                                 ![n] = @ \cup {LoadResult(r.view).domains}]
              /\ IF r.kind = "dl"
                 THEN /\ rf' = [rf EXCEPT ![p].pc = "await", ![p].data = DataOf(p)]
                      /\ wr' = [wr EXCEPT ![p].closed = "eof", ![p].bytes = read]
                 ELSE /\ rf' = [rf EXCEPT ![p] = RfDone(r, "ok")]
                      /\ wr' = wr
              /\ crashed' = crashed

\* A writer that copies nothing of the stream.
CopiedNothing(disk, n, fd, at, bytes) == disk

\* io.Copy: the bytes that went through the pipe are in the file the writer
\* opened, whatever name that file has by now.
CopiedTo(disk, n, fd, at, bytes) ==
  IF fd = at /\ disk[n].st # "absent"
  THEN [disk EXCEPT ![n].bytes = Overlay(@, bytes)]
  ELSE disk

\* The writer ends after the pipe was closed cleanly, and
\* DownloadAndLoadDatabase receives its result from writeErrChan.
WriteDatabaseEnd(p) ==
  LET n == wr[p].name
  IN  /\ rf[p].pc = "await"
      /\ wr[p].pc \in {"open", "failed"}
      /\ IF wr[p].pc = "open"
         THEN /\ dbDisk' = CopiedTo(dbDisk, n, wr[p].fd, "primary", wr[p].bytes)
              /\ bakDisk' = CopiedTo(bakDisk, n, wr[p].fd, "bak", wr[p].bytes)
              /\ rf' = [rf EXCEPT ![p] = RfDone(rf[p], "ok")]
         ELSE /\ UNCHANGED <<dbDisk, bakDisk>>
              /\ rf' = [rf EXCEPT ![p] = RfDone(rf[p], "write")]
      /\ wr' = [wr EXCEPT ![p] = WrNone]

\* The writer ends after the pipe was closed with the loader's error: io.Copy
\* fails and the deferred function restores the backup, if there is one.
WriteDatabaseAbort(p) ==
  LET n == wr[p].name
      db == CopiedTo(dbDisk, n, wr[p].fd, "primary", wr[p].bytes)
      bak == CopiedTo(bakDisk, n, wr[p].fd, "bak", wr[p].bytes)
  IN  /\ wr[p].closed = "err"
      /\ wr[p].pc \in {"open", "failed"}
      /\ IF wr[p].pc = "open"
         THEN IF Restores(p)
              THEN /\ dbDisk' = [db EXCEPT ![n] = bak[n]]
                   /\ bakDisk' = [bak EXCEPT ![n] = NoFile]
                   /\ wr' = [OthersAfterRename(p, n, TRUE, "bak", "primary")
                               EXCEPT ![p] = WrNone]
              ELSE /\ dbDisk' = db
                   /\ bakDisk' = bak
                   /\ wr' = [wr EXCEPT ![p] = WrNone]
         ELSE /\ UNCHANGED <<dbDisk, bakDisk>>
              /\ wr' = [wr EXCEPT ![p] = WrNone]
      /\ rf' = rf

(***************************************************************************)
(* NewDomainDb and its setup function.                                     *)
(***************************************************************************)
\* The last lines of NewDomainDb in synchronous mode, given the error setup
\* returned ("" for nil): the instance and the error the caller gets.
NewDomainDbResult(err) ==
  IF err # "" THEN Returned(FALSE, "") ELSE Returned(TRUE, "")

\* setup returns err.  Its deferred function closes every reader of toClose;
\* a nil reader among them is a nil-pointer dereference.
SetupExit(err, nilInList) ==
  /\ spc' = "end"
  /\ setupErr' = err
  /\ toCloseNil' = nilInList
  /\ IF nilInList
     THEN /\ crashed' = TRUE
          /\ ret' = IF ret.st = "pending"
                    THEN [st |-> "panic", inst |-> FALSE, err |-> ""]
                    ELSE ret
     ELSE /\ crashed' = crashed
          /\ ret' = IF opts.background THEN ret ELSE NewDomainDbResult(err)

\* NewDomainDb up to the call of setup: the registry is built and the
\* checkpoints are read.  In background mode the instance is returned at once.
NewDomainDb ==
  /\ ~crashed
  /\ spc = "new"
  /\ IF ReadCheckpoints(cpDisk).err \notin {"", "notfound"}
     THEN /\ ret' = Returned(FALSE, "checkpoints")
          /\ spc' = "end"
          /\ UNCHANGED <<alreadyHad, checkpoints>>
     ELSE /\ alreadyHad' = (ReadCheckpoints(cpDisk).err = "")
          /\ checkpoints' = ReadCheckpoints(cpDisk).doc
          /\ spc' = "loop"
          /\ ret' = IF opts.background THEN Returned(TRUE, "") ELSE ret
  /\ UNCHANGED <<cfgVars, drvVars, diskVars, todo, cur, toCloseNil, setupErr, engVars,
                 chanVars, updVars, userVars, now, crashed, Domains, rf, wr,
                 installed>>

\* One iteration of setup's first loop, up to the start of the load of name
\* n: from the cache when a reader was obtained, else by download.
SetupIter(n) ==
  LET nilReader == alreadyHad /\ dbDisk[n].st = "absent"
      nilInList == toCloseNil \/ nilReader
      cached == alreadyHad /\ dbDisk[n].st = "ok"
  IN  /\ ~crashed
      /\ spc = "loop"
      /\ cur = ""
      /\ n \in todo
      /\ IF ~isRunning
         THEN SetupExit("", toCloseNil) /\ UNCHANGED <<cur, rf, wr>>
         ELSE IF alreadyHad /\ dbDisk[n].st = "unreadable"
         THEN SetupExit("read", toCloseNil) /\ UNCHANGED <<cur, rf, wr>>
         ELSE IF cached
         THEN /\ rf[SetupProc].pc = "idle"
              /\ rf' = [rf EXCEPT ![SetupProc] =
                          [RfIdle EXCEPT !.pc = "load", !.kind = "cache",
                                         !.name = n, !.view = dbDisk[n].bytes]]
              /\ cur' = n
              /\ UNCHANGED <<spc, toCloseNil, ret, setupErr, crashed, wr>>
         ELSE IF opts.disableDl
         THEN SetupExit("nocache", nilInList) /\ UNCHANGED <<cur, rf, wr>>
         ELSE /\ RefreshCall(SetupProc, n, EngineEnv)
              /\ cur' = n
              /\ toCloseNil' = nilInList
              /\ UNCHANGED <<spc, ret, setupErr, crashed>>
      /\ UNCHANGED <<cfgVars, drvVars, diskVars, todo, alreadyHad, engVars, chanVars,
                     updVars, userVars, now, checkpoints, Domains, installed>>

\* The load of the current name has returned.
SetupAfterLoad ==
  LET r == rf[SetupProc]
  IN  /\ ~crashed
      /\ spc = "loop"
      /\ cur # ""
      /\ r.pc = "done"
      /\ rf' = [rf EXCEPT ![SetupProc] = RfIdle]
      /\ cur' = ""
      /\ IF r.res # "ok"
         THEN /\ SetupExit(r.res, toCloseNil)
              /\ UNCHANGED <<todo, LastUpdatedUnix>>
         ELSE /\ todo' = todo \ {cur}
              /\ LastUpdatedUnix' =
                   IF r.kind = "dl"
                   THEN [LastUpdatedUnix EXCEPT ![cur] = now]
                   ELSE LastUpdatedUnix
              /\ UNCHANGED <<spc, toCloseNil, ret, setupErr, crashed>>
      /\ UNCHANGED <<cfgVars, drvVars, diskVars, alreadyHad, isRunning, dbsNil, chanVars,
                     updVars, userVars, now, checkpoints, Domains, wr, installed>>

\* A second loop that takes no account of the entries read from the file.
PopulateCheckpointsFresh(doc, last) ==
  [n \in CpNames |-> IF n \in Names THEN last[n] ELSE doc[n]]

\* The checkpoints document after setup's second loop: every configured
\* name has an entry; a download of this initialization sets its time.
PopulateCheckpoints(doc, last) ==
  [n \in CpNames |->
     IF n \notin Names THEN doc[n]
     ELSE IF last[n] # 0 THEN last[n]
     ELSE IF doc[n] = NoEntry THEN 0
     ELSE doc[n]]

\* A WriteCheckpoints that opens the file for appending.
WriteCheckpointsAppend(disk, doc) == FileOf(disk.bytes \o Serialize(doc))

\* FsStorageDriver.WriteCheckpoints: checkpoints.json is opened with
\* O_CREAT|O_WRONLY, without O_TRUNC, and the encoding of the document is
\* written from its start.
WriteCheckpoints(disk, doc) == FileOf(Overlay(disk.bytes, Serialize(doc)))

\* After the first loop: the checkpoints are populated and saved.
SetupSaveCheckpoints ==
  /\ ~crashed
  /\ spc = "loop"
  /\ cur = ""
  /\ todo = {}
  /\ IF ~isRunning
     THEN /\ SetupExit("", toCloseNil)
          /\ UNCHANGED <<checkpoints, cpDisk>>
     ELSE /\ checkpoints' = PopulateCheckpoints(checkpoints, LastUpdatedUnix)
          /\ \E fail \in BOOLEAN :
               IF fail
               THEN /\ SetupExit("cpwrite", toCloseNil)
                    /\ cpDisk' = cpDisk
               ELSE /\ cpDisk' = WriteCheckpoints(cpDisk, checkpoints')
                    /\ spc' = "spawn"
                    /\ UNCHANGED <<toCloseNil, ret, setupErr, crashed>>
  /\ UNCHANGED <<cfgVars, drvVars, dbDisk, bakDisk, todo, cur, alreadyHad, engVars,
                 chanVars, updVars, userVars, now, Domains, rf, wr, installed>>

\* The end of setup: the checkpoint writer and the updaters are started.
SetupSpawn ==
  /\ ~crashed
  /\ spc = "spawn"
  /\ IF ~isRunning
     THEN /\ SetupExit("", toCloseNil)
          /\ UNCHANGED <<cw, updVars>>
     ELSE /\ cw' = "on"
          /\ IF opts.disableDl
             THEN UNCHANGED updVars
             ELSE /\ upc' = [n \in Names |-> "start"]
                  /\ due' = [n \in Names |-> checkpoints[n] + RefreshInterval]
                  /\ ticking' = ticking
          /\ SetupExit("", toCloseNil)
  /\ UNCHANGED <<cfgVars, drvVars, diskVars, todo, cur, alreadyHad, engVars, updates,
                 chanClosed, userVars, now, checkpoints, Domains, rf, wr,
                 installed>>

(***************************************************************************)
(* The updaters (runUpdater) and the checkpoint writer.                    *)
(***************************************************************************)
\* runUpdater starts: it returns at once when the engine is closed, else it
\* arms the timer of the first update.
UpdaterStart(n) ==
  /\ ~crashed
  /\ upc[n] = "start"
  /\ upc' = [upc EXCEPT ![n] = IF isRunning THEN "wait" ELSE "exit"]
  /\ UNCHANGED <<cfgVars, drvVars, diskVars, setupVars, engVars, chanVars, ticking, due,
                 userVars, now, checkpoints, crashed, Domains, rf, wr, installed>>

\* The timer or the ticker fires: the updater returns when the engine is
\* closed, else update() calls DownloadAndLoadDatabase.
UpdaterFire(n) ==
  /\ ~crashed
  /\ upc[n] = "wait"
  /\ now >= due[n]
  /\ IF ~isRunning
     THEN /\ upc' = [upc EXCEPT ![n] = "exit"]
          /\ UNCHANGED <<rf, wr>>
     ELSE /\ RefreshCall(n, n, EngineEnv)
          /\ upc' = [upc EXCEPT ![n] = "run"]
  /\ UNCHANGED <<cfgVars, drvVars, diskVars, setupVars, engVars, chanVars, ticking, due,
                 userVars, now, checkpoints, crashed, Domains, installed>>

\* When the ticker delivers its next tick: it is created after the first
\* update, ticks every interval, and keeps one tick for a slow receiver.
NextDue(n) ==
  IF ~ticking[n] THEN now + RefreshInterval
  ELSE IF now >= due[n] + RefreshInterval THEN now
  ELSE due[n] + RefreshInterval

\* An updater that gives up after a refresh that returned an error.
UpdaterLoopUntilError(n) ==
  /\ upc' = [upc EXCEPT ![n] = IF isRunning /\ rf[n].pc # "done"
                               THEN "wait" ELSE "exit"]
  /\ due' = [due EXCEPT ![n] = NextDue(n)]
  /\ ticking' = [ticking EXCEPT ![n] = TRUE]

\* The updater goes to its next wait, or ends when the loop condition
\* s.isRunning is false.
UpdaterLoop(n) ==
  /\ upc' = [upc EXCEPT ![n] = IF isRunning THEN "wait" ELSE "exit"]
  /\ due' = [due EXCEPT ![n] = NextDue(n)]
  /\ ticking' = [ticking EXCEPT ![n] = TRUE]

\* An update() that ignores the error of DownloadAndLoadDatabase.
UpdaterAfterRefreshAlways(n) ==
  /\ ~crashed
  /\ upc[n] = "run"
  /\ rf[n].pc = "done"
  /\ rf' = [rf EXCEPT ![n] = RfIdle]
  /\ IF isRunning
     THEN /\ upc' = [upc EXCEPT ![n] = "send"]
          /\ UNCHANGED <<ticking, due>>
     ELSE UpdaterLoop(n)
  /\ UNCHANGED <<cfgVars, drvVars, diskVars, setupVars, engVars, chanVars, userVars, now,
                 checkpoints, crashed, Domains, wr, installed>>

\* DownloadAndLoadDatabase has returned to update(): on an error, or when the
\* engine is closed, update() returns an error and nothing is sent.
UpdaterAfterRefresh(n) ==
  /\ ~crashed
  /\ upc[n] = "run"
  /\ rf[n].pc = "done"
  /\ rf' = [rf EXCEPT ![n] = RfIdle]
  /\ IF rf[n].res = "ok" /\ isRunning
     THEN /\ upc' = [upc EXCEPT ![n] = "send"]
          /\ UNCHANGED <<ticking, due>>
     ELSE UpdaterLoop(n)
  /\ UNCHANGED <<cfgVars, drvVars, diskVars, setupVars, engVars, chanVars, userVars, now,
                 checkpoints, crashed, Domains, wr, installed>>

\* s.updates <- dbUpdate{Ts: time.Now(), Name: name}; a send on the closed
\* channel panics, a send on a full one waits.
UpdaterSend(n) ==
  /\ ~crashed
  /\ upc[n] = "send"
  /\ IF chanClosed
     THEN /\ crashed' = TRUE
          /\ UNCHANGED <<updates, updVars>>
     ELSE /\ Len(updates) < UpdatesCap
          /\ updates' = Append(updates, [name |-> n, ts |-> now])
          /\ UpdaterLoop(n)
          /\ crashed' = crashed
  /\ UNCHANGED <<cfgVars, drvVars, diskVars, setupVars, engVars, chanClosed, cw, userVars,
                 now, checkpoints, Domains, rf, wr, installed>>

\* The checkpoint writer receives one update, sets the entry of its name and
\* writes the document (an error is logged); it ends when the channel is
\* closed and empty.
CheckpointWriter ==
  /\ ~crashed
  /\ cw = "on"
  /\ IF updates # <<>>
     THEN /\ checkpoints' = [checkpoints EXCEPT ![Head(updates).name] = Head(updates).ts]
          /\ updates' = Tail(updates)
          /\ \E fail \in BOOLEAN :
               cpDisk' = IF fail THEN cpDisk ELSE WriteCheckpoints(cpDisk, checkpoints')
          /\ cw' = cw
     ELSE /\ chanClosed
          /\ cw' = "done"
          /\ UNCHANGED <<checkpoints, updates, cpDisk>>
  /\ UNCHANGED <<cfgVars, drvVars, dbDisk, bakDisk, setupVars, engVars, chanClosed,
                 updVars, userVars, now, crashed, Domains, rf, wr, installed>>

(***************************************************************************)
(* The public operations, called by the user of a returned instance.       *)
(***************************************************************************)
Usable == ret.st = "returned" /\ ret.inst

\* A query that looks the name up in the configured names, not in s.dbs.
DoesDbHaveDomainResultOfConfigured(dbName, domain) ==
  LET normalized == NormalizeDomainName(domain)
  IN  IF dbName \notin Names
      THEN [st |-> "done", name |-> dbName, dom |-> domain, err |-> "nosuchdb",
            has |-> FALSE, seen |-> {}]
      ELSE IF normalized = NormErr
      THEN [st |-> "done", name |-> dbName, dom |-> domain, err |-> "normalize",
            has |-> FALSE, seen |-> {}]
      ELSE [st |-> "done", name |-> dbName, dom |-> domain, err |-> "",
            has |-> normalized \in Domains[dbName], seen |-> Domains[dbName]]

\* A query that normalizes the domain before it looks the name up.
DoesDbHaveDomainResultNormalizeFirst(dbName, domain) ==
  LET normalized == NormalizeDomainName(domain)
  IN  IF normalized = NormErr
      THEN [st |-> "done", name |-> dbName, dom |-> domain, err |-> "normalize",
            has |-> FALSE, seen |-> {}]
      ELSE IF dbsNil \/ dbName \notin Names
      THEN [st |-> "done", name |-> dbName, dom |-> domain, err |-> "nosuchdb",
            has |-> FALSE, seen |-> {}]
      ELSE [st |-> "done", name |-> dbName, dom |-> domain, err |-> "",
            has |-> normalized \in Domains[dbName], seen |-> Domains[dbName]]

\* The answer of DoesDbHaveDomain(dbName, domain) in the current state.
DoesDbHaveDomainResult(dbName, domain) ==
  LET normalized == NormalizeDomainName(domain)
  IN  IF dbsNil \/ dbName \notin Names
      THEN [st |-> "done", name |-> dbName, dom |-> domain, err |-> "nosuchdb",
            has |-> FALSE, seen |-> {}]
      ELSE IF normalized = NormErr
      THEN [st |-> "done", name |-> dbName, dom |-> domain, err |-> "normalize",
            has |-> FALSE, seen |-> {}]
      ELSE [st |-> "done", name |-> dbName, dom |-> domain, err |-> "",
            has |-> normalized \in Domains[dbName], seen |-> Domains[dbName]]

DoesDbHaveDomain(dbName, domain) ==
  /\ ~crashed
  /\ Usable
  /\ q' = DoesDbHaveDomainResult(dbName, domain)
  /\ UNCHANGED <<cfgVars, drvVars, diskVars, setupVars, engVars, chanVars, updVars,
                 userRes, calls, now, checkpoints, crashed, Domains, rf, wr,
                 installed>>

\* A forced refresh: the user calls DownloadAndLoadDatabase(n) while the
\* environment of the source is E.
ForcedRefresh(n, E, max) ==
  /\ ~crashed
  /\ Usable
  /\ calls < max
  /\ calls' = calls + 1
  /\ RefreshCall(UserProc, n, E)
  /\ UNCHANGED <<cfgVars, drvVars, diskVars, setupVars, engVars, chanVars, updVars, q,
                 userRes, now, checkpoints, crashed, Domains, installed>>

UserRefresh(n) == ForcedRefresh(n, EngineEnv, MaxUserCalls)

UserRefreshReturn ==
  /\ ~crashed
  /\ rf[UserProc].pc = "done"
  /\ userRes' = rf[UserProc].res
  /\ rf' = [rf EXCEPT ![UserProc] = RfIdle]
  /\ UNCHANGED <<cfgVars, drvVars, diskVars, setupVars, engVars, chanVars, updVars, q,
                 calls, now, checkpoints, crashed, Domains, wr, installed>>

\* Close: the channel is closed (closing it twice panics), the flag is
\* cleared and the registry is released.
Close ==
  /\ ~crashed
  /\ Usable
  /\ IF chanClosed
     THEN /\ crashed' = TRUE
          /\ UNCHANGED <<chanClosed, isRunning, dbsNil>>
     ELSE /\ chanClosed' = TRUE
          /\ isRunning' = FALSE
          /\ dbsNil' = TRUE
          /\ crashed' = crashed
  /\ UNCHANGED <<cfgVars, drvVars, diskVars, setupVars, LastUpdatedUnix, updates, cw,
                 updVars, userVars, now, checkpoints, Domains, rf, wr, installed>>

\* The wall clock advances.
Tick ==
  /\ ~crashed
  /\ now < MaxClock
  /\ now' = now + 1
  /\ UNCHANGED <<cfgVars, drvVars, diskVars, setupVars, engVars, chanVars, updVars,
                 userVars, checkpoints, crashed, Domains, rf, wr, installed>>

(***************************************************************************)
(* The steps of a refresh, with what they leave unchanged.                 *)
(***************************************************************************)
WriterBegins(p) ==
  /\ ~crashed
  /\ \E fault \in {"none", "rename"}, k \in 0..Len(rf[p].view) :
       WriteDatabaseBegin(p, fault, k)
  /\ UNCHANGED <<cfgVars, drvVars, cpDisk, setupVars, engVars, chanVars, updVars,
                 userVars, now, checkpoints, crashed, Domains, installed>>

WriterOpens(p) ==
  /\ ~crashed
  /\ \E fault \in {"none", "open"}, k \in 0..Len(rf[p].view) :
       WriteDatabaseOpen(p, fault, k)
  /\ UNCHANGED <<cfgVars, drvVars, cpDisk, setupVars, engVars, chanVars, updVars,
                 userVars, now, checkpoints, crashed, Domains, installed>>

LoaderScans(p) ==
  /\ ~crashed
  /\ LoadLine(p)
  /\ UNCHANGED <<cfgVars, drvVars, diskVars, setupVars, engVars, chanVars, updVars,
                 userVars, now, checkpoints, crashed, Domains, wr, installed>>

LoaderEnds(p) ==
  /\ ~crashed
  /\ \E readLen \in 0..Len(rf[p].view) : LoadEnd(p, readLen)
  /\ UNCHANGED <<cfgVars, drvVars, diskVars, setupVars, engVars, chanVars, updVars,
                 userVars, now, checkpoints>>

WriterEnds(p) ==
  /\ ~crashed
  /\ WriteDatabaseEnd(p)
  /\ UNCHANGED <<cfgVars, drvVars, cpDisk, setupVars, engVars, chanVars, updVars,
                 userVars, now, checkpoints, crashed, Domains, installed>>

WriterAborts(p) ==
  /\ ~crashed
  /\ WriteDatabaseAbort(p)
  /\ UNCHANGED <<cfgVars, drvVars, cpDisk, setupVars, engVars, chanVars, updVars,
                 userVars, now, checkpoints, crashed, Domains, installed>>

\* The steps of construction, with the user of an instance that was returned.
StartupNext ==
  \/ NewDomainDb
  \/ \E n \in Names : SetupIter(n)
  \/ SetupAfterLoad
  \/ SetupSaveCheckpoints
  \/ SetupSpawn
  \/ \E p \in Procs : WriterBegins(p)
  \/ \E p \in Procs : WriterOpens(p)
  \/ \E p \in Procs : LoaderScans(p)
  \/ \E p \in Procs : LoaderEnds(p)
  \/ \E p \in Procs : WriterEnds(p)
  \/ \E p \in Procs : WriterAborts(p)
  \/ \E n \in CpNames, d \in QueryDomains : DoesDbHaveDomain(n, d)
  \/ Close
  \/ Tick

\* The steps of a constructed engine: updaters with their scheduled
\* refreshes, the checkpoint writer, queries and Close.
RunNext ==
  \/ \E p \in Procs : WriterBegins(p)
  \/ \E p \in Procs : WriterOpens(p)
  \/ \E p \in Procs : LoaderScans(p)
  \/ \E p \in Procs : LoaderEnds(p)
  \/ \E p \in Procs : WriterEnds(p)
  \/ \E p \in Procs : WriterAborts(p)
  \/ \E n \in Names : UpdaterStart(n)
  \/ \E n \in Names : UpdaterFire(n)
  \/ \E n \in Names : UpdaterAfterRefresh(n)
  \/ \E n \in Names : UpdaterSend(n)
  \/ CheckpointWriter
  \/ \E n \in CpNames, d \in QueryDomains : DoesDbHaveDomain(n, d)
  \/ Close
  \/ Tick

\* The steps of a constructed engine whose user forces refreshes.
ForcedNext ==
  \/ \E p \in Procs : WriterBegins(p)
  \/ \E p \in Procs : WriterOpens(p)
  \/ \E p \in Procs : LoaderScans(p)
  \/ \E p \in Procs : LoaderEnds(p)
  \/ \E p \in Procs : WriterEnds(p)
  \/ \E p \in Procs : WriterAborts(p)
  \/ \E n \in CpNames, d \in QueryDomains : DoesDbHaveDomain(n, d)
  \/ \E n \in CpNames : UserRefresh(n)
  \/ UserRefreshReturn
  \/ Close

Next == StartupNext \/ RunNext \/ ForcedNext

\* The whole engine, from construction on.
Spec == Init /\ [][Next]_vars

\* Construction: every configuration and every state of the data directory.
SpecStartup == Init /\ [][StartupNext]_vars

\* The state a synchronous NewDomainDb leaves when every name was loaded from
\* its cached file: the checkpoints are saved and the goroutines are started.
RunFile == FileOf(MixedBytes)
RunInit ==
  /\ opts \in [disableDl : BOOLEAN, background : {FALSE}]
  /\ srcKind \in [Names -> {"get", "urls", "none"}]
  /\ \E t \in {0, 1} :
       /\ checkpoints = [n \in CpNames |-> IF n \in Names THEN t ELSE 1]
       /\ due = [n \in Names |-> IF opts.disableDl THEN 0 ELSE t + RefreshInterval]
  /\ cpDisk = FileOf(Serialize(checkpoints))
  /\ cpRead = NoRead
  /\ cpLast = NoWrite
  /\ normIn = <<>>
  /\ normOut = NotCalled
  /\ nm = NoNameCall
  /\ dl = NoDownload
  /\ dbDisk = [n \in Names |-> RunFile]
  /\ bakDisk = [n \in Names |-> NoFile]
  /\ now = 1
  /\ spc = "end"
  /\ todo = {}
  /\ cur = ""
  /\ alreadyHad = TRUE
  /\ toCloseNil = FALSE
  /\ ret = Returned(TRUE, "")
  /\ setupErr = ""
  /\ crashed = FALSE
  /\ isRunning = TRUE
  /\ dbsNil = FALSE
  /\ Domains = [n \in Names |-> LoadResult(RunFile.bytes).domains]
  /\ LastUpdatedUnix = [n \in Names |-> 0]
  /\ updates = <<>>
  /\ chanClosed = FALSE
  /\ cw = "on"
  /\ upc = [n \in Names |-> IF opts.disableDl THEN "off" ELSE "start"]
  /\ ticking = [n \in Names |-> FALSE]
  /\ rf = [p \in Procs |-> RfIdle]
  /\ wr = [p \in Procs |-> WrNone]
  /\ q = NoQuery
  /\ userRes = ""
  /\ calls = 0
  /\ installed = [n \in Names |-> {{}, Domains[n]}]

SpecRun == RunInit /\ [][RunNext]_vars

\* The same engine with download disabled (no updater runs), refreshed by
\* its user.
ForcedInit == RunInit /\ opts.disableDl

SpecForced == ForcedInit /\ [][ForcedNext]_vars

(***************************************************************************)
(* The source opener and the loader on every small stream: one forced      *)
(* refresh of a URL-mode source whose URLs serve any body of at most       *)
(* MaxBody bytes, whole or in part, or fail, or of a Get-mode source whose *)
(* stream makes the scan stop early.                                       *)
(***************************************************************************)
SrcChars == {"a", "_", NL}
SrcBodies == SeqsUpTo(SrcChars, MaxBody)
\* What src.Get() hands out: a stream on which the scan stops early, with two
\* more lines after the line at which it stops.
CapStream == CapBytes \o <<"c", NL>>
SrcEnv ==
  [get : {[err |-> TRUE, bytes |-> <<>>], [err |-> FALSE, bytes |-> CapStream]},
   urls : [1..NumUrls -> UrlOutcomes(SrcBodies)]]

SourceRefresh(n) == ForcedRefresh(n, SrcEnv, 1)

SrcInit == ForcedInit /\ \A n \in Names : srcKind[n] \in {"urls", "get"}

SrcNext ==
  \/ \E n \in Names : SourceRefresh(n)
  \/ \E p \in Procs : WriterBegins(p)
  \/ \E p \in Procs : WriterOpens(p)
  \/ \E p \in Procs : LoaderScans(p)
  \/ \E p \in Procs : LoaderEnds(p)
  \/ \E p \in Procs : WriterEnds(p)
  \/ \E p \in Procs : WriterAborts(p)
  \/ UserRefreshReturn

SpecSrc == SrcInit /\ [][SrcNext]_vars

(***************************************************************************)
(* The scheduler alone: the updaters, the refreshes they run, the          *)
(* checkpoint writer and Close, with download enabled and no queries.      *)
(***************************************************************************)
SchedInit == RunInit /\ ~opts.disableDl

SchedNext ==
  \/ \E p \in Procs : WriterBegins(p)
  \/ \E p \in Procs : WriterOpens(p)
  \/ \E p \in Procs : LoaderScans(p)
  \/ \E p \in Procs : LoaderEnds(p)
  \/ \E p \in Procs : WriterEnds(p)
  \/ \E p \in Procs : WriterAborts(p)
  \/ \E n \in Names : UpdaterStart(n)
  \/ \E n \in Names : UpdaterFire(n)
  \/ \E n \in Names : UpdaterAfterRefresh(n)
  \/ \E n \in Names : UpdaterSend(n)
  \/ CheckpointWriter
  \/ Close
  \/ Tick

SpecSched == SchedInit /\ [][SchedNext]_vars

\* The goroutines of the scheduler keep running: every step of an updater,
\* of a storage writer and of the checkpoint writer that stays possible is
\* taken.  Nothing is assumed about the loader, the clock or Close.
SchedFairness ==
  /\ WF_vars(\E n \in Names : UpdaterStart(n))
  /\ WF_vars(\E n \in Names : UpdaterFire(n))
  /\ WF_vars(\E n \in Names : UpdaterAfterRefresh(n))
  /\ WF_vars(\E n \in Names : UpdaterSend(n))
  /\ WF_vars(CheckpointWriter)
  /\ WF_vars(\E p \in Procs : WriterBegins(p))
  /\ WF_vars(\E p \in Procs : WriterOpens(p))
  /\ WF_vars(\E p \in Procs : WriterEnds(p))
  /\ WF_vars(\E p \in Procs : WriterAborts(p))

SpecSchedFair == SpecSched /\ SchedFairness

(***************************************************************************)
(* A forced refresh that can overlap the scheduled one: the updaters,     *)
(* whose timers are due, and one DownloadAndLoadDatabase call of the user, *)
(* on URL-mode sources, while the clock stands.                            *)
(***************************************************************************)
BothInit ==
  /\ SchedInit
  /\ \A n \in Names : srcKind[n] = "urls" /\ due[n] <= now

OverlappingRefresh(n) == ForcedRefresh(n, EngineEnv, 1)

BothNext ==
  \/ \E p \in Procs : WriterBegins(p)
  \/ \E p \in Procs : WriterOpens(p)
  \/ \E p \in Procs : LoaderScans(p)
  \/ \E p \in Procs : LoaderEnds(p)
  \/ \E p \in Procs : WriterEnds(p)
  \/ \E p \in Procs : WriterAborts(p)
  \/ \E n \in Names : UpdaterStart(n)
  \/ \E n \in Names : UpdaterFire(n)
  \/ \E n \in Names : UpdaterAfterRefresh(n)
  \/ \E n \in Names : UpdaterSend(n)
  \/ CheckpointWriter
  \/ \E n \in Names : OverlappingRefresh(n)
  \/ UserRefreshReturn

SpecBoth == BothInit /\ [][BothNext]_vars

(***************************************************************************)
(* The storage driver used directly: any sequence of WriteCheckpoints and  *)
(* ReadCheckpoints calls on an empty data directory.                       *)
(***************************************************************************)
\* The documents a caller writes: any subset of the names, with timestamps
\* of one and of two digits.
CpStamps == {9, 10}
CpDocs == [CpNames -> {NoEntry} \cup CpStamps]

\* FsStorageDriver.WriteCheckpoints(doc); when os.OpenFile fails nothing is
\* written and the error is returned.
DriverWriteCheckpoints(doc) ==
  /\ \E fail \in BOOLEAN :
       IF fail
       THEN UNCHANGED <<cpDisk, cpLast>>
       ELSE /\ cpDisk' = WriteCheckpoints(cpDisk, doc)
            /\ cpLast' = [st |-> "written", doc |-> doc]
  /\ cpRead' = NoRead
  /\ UNCHANGED <<normIn, normOut, nm, dl, cfgVars, dbDisk, bakDisk, setupVars, engVars, chanVars, updVars,
                 userVars, now, checkpoints, crashed, Domains, rf, wr, installed>>

\* FsStorageDriver.ReadCheckpoints().
DriverReadCheckpoints ==
  /\ cpRead' = ReadCheckpoints(cpDisk)
  /\ UNCHANGED <<cfgVars, diskVars, setupVars, engVars, chanVars, updVars,
                 userVars, now, checkpoints, crashed, Domains, rf, wr, installed,
                 cpLast, normIn, normOut, nm, dl>>

CpInit ==
  /\ Init
  /\ cpDisk = NoFile
  /\ opts = [disableDl |-> FALSE, background |-> FALSE]
  /\ srcKind = [n \in Names |-> "urls"]
  /\ dbDisk = [n \in Names |-> NoFile]

CpNext ==
  \/ \E doc \in CpDocs : DriverWriteCheckpoints(doc)
  \/ DriverReadCheckpoints

SpecCp == CpInit /\ [][CpNext]_vars

(***************************************************************************)
(* What the lines of a byte sequence denote, stated without the loader.    *)
(***************************************************************************)
\* A line that is neither empty nor a comment.
IsDataLine(l) == l # <<>> /\ l[1] # "#"
IsFailingLine(l) == IsDataLine(l) /\ NormalizeDomainName(l) = NormErr
IsGoodLine(l) == IsDataLine(l) /\ NormalizeDomainName(l) # NormErr

\* The normalized names of all the valid lines of the bytes.
ValidNames(bytes) ==
  LET ls == ScanLines(bytes)
  IN  {NormalizeDomainName(ls[i]) : i \in {j \in 1..Len(ls) : IsGoodLine(ls[j])}}

\* The lines the scan reaches: those with fewer than maxFailures failing
\* lines before them.
ReachedLines(ls) ==
  {i \in 1..Len(ls) :
     Cardinality({j \in 1..(i - 1) : IsFailingLine(ls[j])}) < maxFailures}
ReachedNames(bytes) ==
  LET ls == ScanLines(bytes)
  IN  {NormalizeDomainName(ls[i]) : i \in {j \in ReachedLines(ls) : IsGoodLine(ls[j])}}
\* Among the lines reached, no more failing lines than good ones.
PassesFailureCheck(bytes) ==
  LET ls == ScanLines(bytes)
      reached == ReachedLines(ls)
  IN  Cardinality({j \in reached : IsFailingLine(ls[j])})
        <= Cardinality({j \in reached : IsGoodLine(ls[j])})
FailingLines(bytes) ==
  LET ls == ScanLines(bytes)
  IN  Cardinality({j \in 1..Len(ls) : IsFailingLine(ls[j])})

\* The stream of a URL-mode source, body by body.
RECURSIVE BodiesThenNewlines(_)
BodiesThenNewlines(outs) ==
  IF outs = <<>> THEN <<>>
  ELSE Head(outs).written \o <<NL>> \o BodiesThenNewlines(Tail(outs))

SucceededUrls(outs) == {k \in 1..Len(outs) : outs[k].kind = "ok"}

(***************************************************************************)
(* C1.                                                                     *)
(***************************************************************************)
\* C1: a DoesDbHaveDomain(N, d) call that interleaves with loads and
\* refreshes of N answers against one complete installed set: the set it
\* probed is one of the sets a finished load installed (or the set before
\* the first load), never a partly built one, and its answer is the
\* membership of the normalized name in that set.
C1_QuerySeesInstalledSet ==
  /\ \A n \in Names : Domains[n] \in installed[n]
  /\ (q.st = "done" /\ q.err = "") =>
       /\ q.seen \in installed[q.name]
       /\ q.has = (NormalizeDomainName(q.dom) \in q.seen)

\* A query was answered against the live set while a refresh of the same
\* name had built a different, partial set.
C1_Witness ==
  /\ q.st = "done" /\ q.err = "" /\ q.has
  /\ \E p \in Procs :
       /\ rf[p].pc = "load" /\ rf[p].name = q.name
       /\ rf[p].i > 0 /\ rf[p].i < Len(ScanLines(rf[p].view))
       /\ rf[p].st.domains # {}
       /\ rf[p].st.domains # q.seen
       /\ q.seen = Domains[q.name]

(***************************************************************************)
(* C2.                                                                     *)
(***************************************************************************)
\* C2: when NewDomainDb returns a nil error, the instance it returns is not
\* nil.
C2_NilErrorGivesInstance ==
  (ret.st = "returned" /\ ret.err = "") => ret.inst

(***************************************************************************)
(* C3.                                                                     *)
(***************************************************************************)
\* C3: in synchronous mode, when setup stops because a name has no cached
\* copy and download is disabled (and no read of a cached file came back
\* NotFound), NewDomainDb returns a non-nil error that is
\* ErrNoCacheAndNoDownload.
C3_NoCacheNoDownloadReported ==
  (~opts.background /\ spc = "end" /\ setupErr = "nocache" /\ ~toCloseNil) =>
     (ret.st = "returned" /\ ret.err = "nocache")

(***************************************************************************)
(* C4.                                                                     *)
(***************************************************************************)
\* C4: when every URL of a refresh failed, the load that ends leaves the
\* set of its name as it was: no swap happens.
C4_AllUrlsFailedKeepsSet ==
  [][\A p \in Procs :
       (rf[p].pc = "load" /\ rf[p].kind = "dl" /\ rf[p].srcErr
          /\ rf'[p].pc # "load")
       => Domains'[rf[p].name] = Domains[rf[p].name]]_vars

(***************************************************************************)
(* C5.                                                                     *)
(***************************************************************************)
\* C5: when a load ends, it fails exactly when the failing lines it counted
\* outnumber the good lines; a failed load returns the parse error and
\* leaves every set as it was, and a load that does not fail goes on to
\* succeed (it installs its set).
C5_FailureCheck ==
  [][\A p \in Procs :
       (rf[p].pc = "load" /\ rf'[p].pc # "load") =>
         LET st == LoadResult(rf[p].view)
         IN  IF st.failures > st.goodLines
             THEN /\ rf'[p].pc = "done" /\ rf'[p].res = "parse"
                  /\ Domains' = Domains
             ELSE /\ rf'[p].res \in {"", "ok"}
                  /\ Domains'[rf[p].name] = st.domains]_vars

\* A refresh returned the parse error and the set of its name is the
\* non-empty set it was before.
C5_Witness ==
  \E p \in Procs :
    /\ rf[p].pc = "done" /\ rf[p].res = "parse" /\ rf[p].kind = "dl"
    /\ Domains[rf[p].name] # {}

C7_StreamAndUnion ==
  \A p \in Procs :
    rf[p].outs # NoOuts =>
      /\ (rf[p].pc = "load" /\ ~rf[p].cut) =>
            rf[p].view = BodiesThenNewlines(rf[p].outs)
      /\ (rf[p].pc = "done" /\ rf[p].res = "ok") =>
            Domains[rf[p].name] =
              UNION {ValidNames(rf[p].outs[k].written) :
                       k \in SucceededUrls(rf[p].outs)}

(***************************************************************************)
(* C8.                                                                     *)
(***************************************************************************)
\* C8: a refresh of a configured name whose source has neither Get nor
\* URLs returns ErrDataSourceNoSource, leaves every set as it was and
\* writes nothing to storage: no file changes and no writer is started.
C8_NoSourceRefresh ==
  [][\A p \in Procs :
       (rf[p].pc = "idle" /\ rf'[p].pc # "idle" /\ rf'[p].kind = "dl"
          /\ rf'[p].name \in Names /\ ~dbsNil
          /\ srcKind[rf'[p].name] = "none")
       => /\ rf'[p].pc = "done" /\ rf'[p].res = "nosource"
          /\ Domains' = Domains
          /\ dbDisk' = dbDisk /\ bakDisk' = bakDisk /\ cpDisk' = cpDisk
          /\ wr' = wr]_vars

\* A forced refresh of a name without a source returned the error, and the
\* set and the file are those from before.
C8_Witness ==
  /\ userRes = "nosource"
  /\ \E n \in Names :
       /\ srcKind[n] = "none"
       /\ Domains[n] = ValidNames(RunFile.bytes)
       /\ Domains[n] # {}
       /\ dbDisk[n] = RunFile

(***************************************************************************)
(* C9.                                                                     *)
(***************************************************************************)
\* The start is offline: the checkpoints existed, every configured name has
\* a cached file, and download is disabled.
OfflineStart ==
  /\ alreadyHad
  /\ opts.disableDl
  /\ \A n \in Names : dbDisk[n].st = "ok"

\* No source was opened: every load in progress reads the cache, and no
\* storage writer exists.
NoSourceOpened ==
  \A p \in Procs : rf[p].kind # "dl" /\ wr[p].pc = "none"

\* C9 (as stated): after an offline start whose checkpoint write did not
\* fail, construction has succeeded without opening a source, and
\* DoesDbHaveDomain(N, d) is true exactly when the normalized d equals the
\* normalized form of a valid line of the cached file of N.
C9_OfflineStart ==
  (OfflineStart /\ spc = "end" /\ setupErr # "cpwrite") =>
    /\ ret = Returned(TRUE, "")
    /\ NoSourceOpened
    /\ ~dbsNil =>
         \A n \in Names, d \in QueryDomains :
           DoesDbHaveDomainResult(n, d).has
             = (NormalizeDomainName(d) \in ValidNames(dbDisk[n].bytes))

\* C9 (amended): after an offline start in which every cached file passes
\* the loader's failure check and the checkpoint write did not fail,
\* construction has succeeded without opening a source, and
\* DoesDbHaveDomain(N, d) is true exactly when the normalized d equals the
\* normalized form of a valid line of the cached file of N that the scan
\* reached, that is a line with fewer than maxFailures failing lines before
\* it; a query made in synchronous mode has given that answer.
C9_OfflineStartOfReachedLines ==
  (OfflineStart /\ spc = "end" /\ setupErr # "cpwrite"
     /\ \A n \in Names : PassesFailureCheck(dbDisk[n].bytes)) =>
    /\ ret = Returned(TRUE, "")
    /\ setupErr = ""
    /\ NoSourceOpened
    /\ ~dbsNil =>
         \A n \in Names, d \in QueryDomains :
           DoesDbHaveDomainResult(n, d).has
             = (NormalizeDomainName(d) \in ReachedNames(dbDisk[n].bytes))
    /\ (~opts.background /\ q.st = "done" /\ q.err = "") =>
         q.has = (NormalizeDomainName(q.dom) \in ReachedNames(dbDisk[q.name].bytes))

\* After an offline start a query of an upper-case name was answered true
\* from the cached file.
C9_Witness ==
  /\ OfflineStart /\ spc = "end" /\ setupErr = ""
  /\ ret = Returned(TRUE, "")
  /\ q.st = "done" /\ q.has /\ q.dom = <<"A">>
  /\ ~dbsNil

(***************************************************************************)
(* C10.                                                                    *)
(***************************************************************************)
\* C10: a cached database that is not found at startup is tolerated: with
\* download enabled, once setup has ended without an error after such a
\* read, the process has not crashed and NewDomainDb has returned the
\* instance.
C10_NotFoundTolerated ==
  (toCloseNil /\ ~opts.disableDl /\ spc = "end" /\ setupErr = "") =>
     (~crashed /\ ret = Returned(TRUE, ""))

(***************************************************************************)
(* C11.                                                                    *)
(***************************************************************************)
\* C11: an updater gets to send the checkpoint update of N only from a
\* refresh of N that returned nil, when the set of N is the one parsed from
\* the bytes now in the persisted file and the storage writer has ended;
\* the channel grows only by the update {N, now} of an updater that is at
\* its send; and after a refresh that returned an error the updater does
\* not get to send.
C11_UpdateAfterSetAndFile ==
  [][/\ \A n \in Names :
          /\ (upc[n] # "send" /\ upc'[n] = "send") =>
                /\ rf[n].pc = "done" /\ rf[n].res = "ok"
                /\ wr[n].pc = "none"
                /\ dbDisk[n].st = "ok"
                /\ Domains[n] = LoadResult(dbDisk[n].bytes).domains
                /\ Domains[n] \in installed[n]
          /\ (rf[n].pc = "done" /\ rf[n].res # "ok" /\ rf'[n].pc # "done") =>
                upc'[n] # "send"
     /\ Len(updates') > Len(updates) =>
          \E n \in Names :
            /\ upc[n] = "send"
            /\ updates' = Append(updates, [name |-> n, ts |-> now])]_vars

\* An update is in the channel and the persisted file of its name is no
\* longer the file the engine started with.
C11_Witness ==
  /\ updates # <<>>
  /\ dbDisk[Head(updates).name].st = "ok"
  /\ dbDisk[Head(updates).name] # RunFile
  /\ Domains[Head(updates).name] = LoadResult(dbDisk[Head(updates).name].bytes).domains

(***************************************************************************)
(* C17.                                                                    *)
(***************************************************************************)
\* C17: once Close has closed the update channel and released the
\* registry, no updater is past its isRunning check and about to send on
\* the channel, no updater starts a refresh, and no load in flight has
\* taken its entry from the released registry.
C17_CloseWithUpdaters ==
  chanClosed =>
    /\ \A n \in Names : upc[n] # "send"
    /\ \A p \in Procs : rf[p].pc = "load" => rf[p].data # "nil"

C20_UpdaterKeepsTicking ==
  /\ [][\A n \in Names : (upc[n] # "exit" /\ upc'[n] = "exit") => ~isRunning]_vars
  /\ \A n \in Names :
       (upc[n] = "run" /\ rf[n].pc = "done" /\ rf[n].res # "ok")
         ~> (upc[n] = "wait" \/ ~isRunning \/ crashed)
  /\ \A n \in Names :
       (upc[n] = "wait" /\ now >= due[n])
         ~> (upc[n] = "run" \/ ~isRunning \/ crashed)

\* The first scheduled refresh sent no update (no checkpoint of this run
\* exists), and the updater, now on its ticker, runs the next refresh.
C20_Witness ==
  \E n \in Names :
    /\ isRunning /\ ticking[n]
    /\ upc[n] = "run" /\ rf[n].pc = "load"
    /\ updates = <<>> /\ checkpoints[n] = 0


(***************************************************************************)
(* C12.                                                                    *)
(***************************************************************************)
\* C12: a WriteDatabase call renames an existing primary file to the backup
\* before it opens the new primary; when the call fails (rename or open
\* error, or the stream ends with an error) and the primary existed, the
\* primary afterwards is the file it was before the call; when the call
\* succeeds the primary holds exactly the bytes of the stream and the backup
\* holds what the primary was before.
C12_WriteDatabaseContract ==
  [][\A p \in Procs :
       LET n == wr[p].name
           before == IF wr[p].pc = "new" THEN dbDisk[n] ELSE wr[p].before
           fails == \/ wr[p].pc \in {"new", "statted"} /\ wr'[p].pc = "failed"
                    \/ wr[p].pc = "open" /\ wr[p].closed = "err" /\ wr'[p].pc = "none"
           succeeds == wr[p].pc = "open" /\ wr[p].closed = "eof" /\ wr'[p].pc = "none"
       IN  /\ (wr[p].pc = "new" /\ wr'[p].pc = "statted" /\ before.st # "absent")
                => (bakDisk'[n] = before /\ dbDisk'[n] = NoFile)
           /\ (wr[p].pc = "statted" /\ wr'[p].pc = "open")
                => (dbDisk[n] = NoFile /\ dbDisk'[n] = FileOf(<<>>))
           /\ (fails /\ before.st # "absent") => dbDisk'[n] = before
           /\ succeeds => /\ dbDisk'[n] = FileOf(wr[p].bytes)
                          /\ before.st # "absent" => bakDisk'[n] = before
    ]_vars

\* A forced refresh failed its check after the writer had moved the primary
\* away and written the rejected bytes: the primary is back, no backup is left.
C12_Witness ==
  \E n \in Names :
    /\ rf[UserProc].pc = "done" /\ rf[UserProc].res = "parse"
    /\ rf[UserProc].name = n /\ ~rf[UserProc].cut
    /\ wr[UserProc].pc = "none"
    /\ dbDisk[n] = RunFile /\ bakDisk[n] = NoFile

(***************************************************************************)
(* C13.                                                                    *)
(***************************************************************************)
\* C13: when the storage writer of a refresh whose load failed the check, or
\* whose URLs all failed, has ended, the primary file of the name is the
\* file it was before the refresh, and absent if it was absent.
C13_FileOnlyBySuccessfulFetch ==
  [][\A p \in Procs :
       (/\ wr[p].pc \in {"open", "failed"} /\ wr'[p].pc = "none"
        /\ \/ rf'[p].res = "parse"
           \/ rf'[p].outs # NoOuts /\ AllUrlsFailed(rf'[p].outs))
       => dbDisk'[wr[p].name] = wr[p].before]_vars

(***************************************************************************)
(* C14.                                                                    *)
(***************************************************************************)
\* C14: when a refresh of N ends successfully, the primary file of N holds
\* exactly the bytes the loader took from the stream: the whole stream when
\* the scan ran to its end, and when the scan stopped early at the failure
\* cap a prefix of the stream with every line the scanner returned; the
\* loader run on that file builds the set the refresh installed.
C14_FileMirrorsParsed ==
  [][\A p \in Procs :
       (rf[p].pc = "await" /\ rf'[p].pc = "done" /\ rf'[p].res = "ok") =>
         LET n == rf[p].name
             view == rf[p].view
             file == dbDisk'[n]
             stoppedEarly == /\ rf[p].st.failures >= maxFailures
                             /\ rf[p].i < Len(ScanLines(view))
         IN  /\ file.st = "ok"
             /\ \E k \in ConsumedLen(view, rf[p].i)..Len(view) :
                  file.bytes = SubSeq(view, 1, k)
             /\ ~stoppedEarly => file.bytes = view
             /\ Domains'[n] = rf[p].st.domains
             /\ LoadResult(file.bytes).domains = Domains'[n]
    ]_vars

\* A refresh whose scan stopped at the failure cap succeeded, and the file
\* it left ends before the end of the stream.
C14_Witness ==
  \E n \in Names :
    /\ srcKind[n] = "get"
    /\ rf[UserProc].pc = "done" /\ rf[UserProc].res = "ok" /\ rf[UserProc].name = n
    /\ dbDisk[n].st = "ok"
    /\ Len(dbDisk[n].bytes) < Len(CapStream)
    /\ dbDisk[n].bytes = SubSeq(CapStream, 1, Len(dbDisk[n].bytes))
    /\ Domains[n] = {<<"a">>}
    /\ LoadResult(dbDisk[n].bytes).failures = maxFailures

(***************************************************************************)
(* C15 and C16.                                                            *)
(***************************************************************************)
\* C15: after a WriteCheckpoints call that returned nil, the content of
\* checkpoints.json is exactly the encoding of the document of that call,
\* whatever was written before.
C15_FileIsSerialization ==
  cpLast.st = "written" => cpDisk = FileOf(Serialize(cpLast.doc))

\* C16: a ReadCheckpoints call returns ENOENT when no WriteCheckpoints call
\* has succeeded yet, and else the document of the last successful
\* WriteCheckpoints call: the same names with the same LastUpdatedUnix.
C16_ReadReturnsLastWritten ==
  cpRead.err # "pending" =>
    IF cpLast.st = "none"
    THEN cpRead.err = "notfound"
    ELSE cpRead.err = "" /\ cpRead.doc = cpLast.doc

\* A shorter document was written over a longer one and then read back.
C16_Witness ==
  /\ cpLast.st = "written"
  /\ cpRead.err = "" /\ cpRead.doc = cpLast.doc
  /\ \E n \in CpNames : cpRead.doc[n] = 9
  /\ Len(cpDisk.bytes) > Len(Serialize(cpLast.doc))

(***************************************************************************)
(* C19.                                                                    *)
(***************************************************************************)
\* C19: when a forced and a scheduled refresh of the same name, each with a
\* URL that was fetched, have both returned nil and their storage writers
\* have ended, the live set is the set one of the two parsed and the primary
\* file holds the complete bytes one of the two fetched.
C19_ConcurrentRefreshes ==
  \A n \in Names :
    LET u == rf[UserProc]
        s == rf[n]
    IN  (/\ u.pc = "done" /\ u.res = "ok" /\ u.name = n
         /\ s.pc = "done" /\ s.res = "ok" /\ s.name = n
         /\ ~AllUrlsFailed(u.outs) /\ ~AllUrlsFailed(s.outs)
         /\ wr[UserProc].pc = "none" /\ wr[n].pc = "none")
        => /\ Domains[n] \in {LoadResult(UrlStream(u.outs)).domains,
                             LoadResult(UrlStream(s.outs)).domains}
           /\ dbDisk[n] \in {FileOf(UrlStream(u.outs)), FileOf(UrlStream(s.outs))}

(***************************************************************************)
(* C21.                                                                    *)
(***************************************************************************)
\* C21: with LoadDatabasesInBackground, a DoesDbHaveDomain call on a
\* configured name that setup has not loaded yet returns an error.
C21_NotLoadedYetIsAnError ==
  [][\A n \in Names, d \in QueryDomains :
       (/\ opts.background /\ ~dbsNil
        /\ spc = "loop" /\ (n \in todo \/ cur = n)
        /\ q' # q /\ q' = DoesDbHaveDomainResult(n, d))
       => q'.err # ""]_vars

MaxNormLen == 4
NormChars == {"a", "b", "."}
ExampleCom == <<"e", "x", "a", "m", "p", "l", "e", ".", "c", "o", "m">>
ExampleDotDotCom == <<"e", "x", "a", "m", "p", "l", "e", ".", ".", "c", "o", "m">>
\* The inputs of TestNormalizeDomain_AllDotsOrEmptyLabels, of
\* TestNormalizeDomain_TrailingDotRemoved and of
\* TestNormalizeDomain_RemovesTrailingDotOnly.
TestInputs ==
  { <<".">>, <<".", ".">>, <<".", ".", ".">>,
    <<".">> \o ExampleCom, ExampleCom \o <<".", ".">>, ExampleDotDotCom,
    ExampleCom \o <<".">>, <<"a", ".", "b", ".", "c", ".">> }
NormInputs == SeqsUpTo(NormChars, MaxNormLen) \cup TestInputs

NormInit ==
  /\ EngineInit
  /\ cpDisk = NoFile
  /\ opts = [disableDl |-> FALSE, background |-> FALSE]
  /\ srcKind = [n \in Names |-> "urls"]
  /\ dbDisk = [n \in Names |-> NoFile]
  /\ bakDisk = [n \in Names |-> NoFile]
  /\ normIn \in NormInputs
  /\ normOut = NotCalled
  /\ nm = NoNameCall
  /\ dl = NoDownload

DriverNormalizeDomain ==
  /\ normOut = NotCalled
  /\ normOut' = NormalizeDomain(normIn)
  /\ UNCHANGED <<normIn, nm, dl, cpRead, cpLast, cfgVars, diskVars, setupVars, engVars,
                 chanVars, updVars, userVars, now, checkpoints, crashed,
                 Domains, rf, wr, installed>>

NormNext == DriverNormalizeDomain

SpecNorm == NormInit /\ [][NormNext]_vars

\* s with at most one trailing dot removed.
WithoutOneTrailingDot(s) ==
  IF HasSuffix(s, ".") THEN SubSeq(s, 1, Len(s) - 1) ELSE s
\* s has a leading dot, a trailing dot or an empty label (or no label).
HasEmptyLabel(s) ==
  LET parts == SplitOn(s, ".")
  IN  \E k \in 1..Len(parts) : parts[k] = <<>>

\* C23: NormalizeDomain removes at most one trailing dot and then rejects
\* every input that still has a leading dot, a trailing dot or an empty
\* label; "example.com." and "a.b.c." normalize to "example.com" and "a.b.c".
C23_DotsRejected ==
  normOut # NotCalled =>
    /\ HasEmptyLabel(WithoutOneTrailingDot(normIn)) => normOut = NormErr
    /\ normIn = ExampleCom \o <<".">> => normOut = ExampleCom
    /\ normIn = <<"a", ".", "b", ".", "c", ".">>
         => normOut = <<"a", ".", "b", ".", "c">>

(***************************************************************************)
(* Direct calls of WriteDatabase and ReadDatabase with names of every      *)
(* length around the limit.  nm.dir is the data directory: a function from *)
(* file names to contents.                                                 *)
(***************************************************************************)
DbNameMaxSize == 255

\* url.QueryEscape on the characters used here: "/" is escaped, a space
\* becomes "+", letters are kept.
EscapeChar(c) ==
  IF c = "/" THEN <<"%", "2", "F">> ELSE IF c = " " THEN <<"+">> ELSE <<c>>
QueryEscape(name) ==
  LET wide == {j \in 1..Len(name) : name[j] = "/"}
      before(i) == (i - 1) + 2 * Cardinality({j \in wide : j < i})
      total == before(Len(name) + 1)
  IN  [k \in 1..total |->
         LET i == CHOOSE i \in 1..Len(name) :
                    before(i) < k /\ k <= before(i) + Len(EscapeChar(name[i]))
         IN  EscapeChar(name[i])[k - before(i)]]

FilenameOf(name) == QueryEscape(name) \o <<".", "t", "x", "t">>

dbNameToFilenameUnchecked(name) == [err |-> "", filename |-> FilenameOf(name)]

dbNameToFilename(name) ==
  IF Len(name) > DbNameMaxSize
  THEN [err |-> "toolong", filename |-> <<>>]
  ELSE [err |-> "", filename |-> FilenameOf(name)]

BakOf(filename) == filename \o <<".", "b", "a", "k">>
EmptyDir == [f \in {} |-> <<>>]
DirWithout(dir, f) == [g \in DOMAIN dir \ {f} |-> dir[g]]
DirWith(dir, f, b) == [g \in DOMAIN dir \cup {f} |-> IF g = f THEN b ELSE dir[g]]
\* os.Rename(from, to) on a directory where from exists.
DirRename(dir, from, to) == DirWith(DirWithout(dir, from), to, dir[from])

NameLens == {1, DbNameMaxSize - 1, DbNameMaxSize, DbNameMaxSize + 1}
TestNames ==
  {[i \in 1..k |-> "n"] : k \in NameLens}
    \cup {[i \in 1..k |-> IF i = 1 THEN "/" ELSE "n"] : k \in NameLens}
NameFaults == {"none", "rename", "open", "copy"}

NameInit ==
  /\ EngineInit
  /\ cpDisk = NoFile
  /\ opts = [disableDl |-> FALSE, background |-> FALSE]
  /\ srcKind = [n \in Names |-> "urls"]
  /\ dbDisk = [n \in Names |-> NoFile]
  /\ bakDisk = [n \in Names |-> NoFile]
  /\ normIn = <<>>
  /\ normOut = NotCalled
  /\ \E name \in TestNames, op \in {"write", "read"},
        input \in {<<>>, BodyA, BodyB, MixedBytes},
        old \in {"absent", "present"} :
       /\ op = "read" => input = <<>>
       /\ nm = [st |-> "called", op |-> op, name |-> name, input |-> input,
                dir |-> IF old = "absent" THEN EmptyDir
                        ELSE DirWith(EmptyDir, FilenameOf(name), BodyBad),
                err |-> "", closed |-> FALSE, ops |-> <<>>, out |-> <<>>]
  /\ dl = NoDownload

\* FsStorageDriver.WriteDatabase called on its own: the deferred close of the
\* input, the name check, Stat and Rename to the backup, OpenFile, io.Copy,
\* and the deferred restore of the backup when an error is returned.
DriverWriteDatabase(fault) ==
  LET fn == dbNameToFilename(nm.name)
      f == fn.filename
      exists == f \in DOMAIN nm.dir
      moved == IF exists THEN DirRename(nm.dir, f, BakOf(f)) ELSE nm.dir
      statOps == IF exists THEN <<"stat", "rename">> ELSE <<"stat">>
      restored(d) == IF exists THEN DirRename(DirWithout(d, f), BakOf(f), f)
                     ELSE d
      created == DirWith(moved, f, <<>>)
  IN  /\ nm.st = "called"
      /\ nm.op = "write"
      /\ nm' =
           IF fn.err # ""
           THEN [nm EXCEPT !.st = "done", !.err = fn.err, !.closed = TRUE]
           ELSE IF fault = "rename" /\ exists
           THEN [nm EXCEPT !.st = "done", !.err = "rename", !.closed = TRUE,
                           !.ops = statOps]
           ELSE IF fault = "open"
           THEN [nm EXCEPT !.st = "done", !.err = "open", !.closed = TRUE,
                           !.ops = statOps \o <<"open">>,
                           !.dir = restored(moved)]
           ELSE IF fault = "copy"
           THEN [nm EXCEPT !.st = "done", !.err = "copy", !.closed = TRUE,
                           !.ops = statOps \o <<"open", "copy">>,
                           !.dir = restored(created)]
           ELSE [nm EXCEPT !.st = "done", !.err = "", !.closed = TRUE,
                           !.ops = statOps \o <<"open", "copy">>,
                           !.dir = DirWith(moved, f, nm.input)]
      /\ UNCHANGED <<normIn, normOut, dl, cpRead, cpLast, cfgVars, diskVars,
                     setupVars, engVars, chanVars, updVars, userVars, now,
                     checkpoints, crashed, Domains, rf, wr, installed>>

\* FsStorageDriver.ReadDatabase called on its own.
DriverReadDatabase ==
  LET fn == dbNameToFilename(nm.name)
      f == fn.filename
  IN  /\ nm.st = "called"
      /\ nm.op = "read"
      /\ nm' =
           IF fn.err # ""
           THEN [nm EXCEPT !.st = "done", !.err = fn.err]
           ELSE IF f \notin DOMAIN nm.dir
           THEN [nm EXCEPT !.st = "done", !.err = "notfound",
                           !.ops = <<"open">>]
           ELSE [nm EXCEPT !.st = "done", !.ops = <<"open">>,
                           !.out = nm.dir[f]]
      /\ UNCHANGED <<normIn, normOut, dl, cpRead, cpLast, cfgVars, diskVars,
                     setupVars, engVars, chanVars, updVars, userVars, now,
                     checkpoints, crashed, Domains, rf, wr, installed>>

NameNext ==
  \/ \E fault \in NameFaults : DriverWriteDatabase(fault)
  \/ DriverReadDatabase

SpecName == NameInit /\ [][NameNext]_vars

\* C24: WriteDatabase and ReadDatabase reject a name longer than 255 bytes
\* with ErrDbNameTooLong before any file operation and without changing the
\* directory, never reject a name of at most 255 bytes that way, and
\* WriteDatabase has closed its input when it rejects.
C24_NameLengthChecked ==
  [][(nm.st = "called" /\ nm'.st = "done") =>
       IF Len(nm.name) > 255
       THEN /\ nm'.err = "toolong"
            /\ nm'.ops = <<>>
            /\ nm'.dir = nm.dir
            /\ nm.op = "write" => nm'.closed
       ELSE nm'.err # "toolong"]_vars

C24_Witness ==
  /\ nm.st = "done"
  /\ nm.op = "write"
  /\ Len(nm.name) = 256
  /\ nm.err = "toolong"
  /\ nm.closed
  /\ nm.ops = <<>>

(***************************************************************************)
(* C25.                                                                    *)
(***************************************************************************)
\* C25: a load records at most maxFailures (10) normalization failures; once
\* the tenth is recorded it processes no further line; and the set it
\* installs holds only names of lines before the tenth failing line.
C25_StopsAtTenthFailure ==
  [][\A p \in Procs :
       LET r == rf[p]
           ls == ScanLines(r.view)
       IN  /\ rf'[p].st.failures <= maxFailures
           /\ (r.pc = "load" /\ rf'[p].pc = "load"
                 /\ r.st.failures = maxFailures)
                => (rf'[p].i = r.i /\ rf'[p].st = r.st)
           /\ (r.pc = "load" /\ rf'[p].pc = "load")
                => rf'[p].i \in ReachedLines(ls) \cup {0}
           /\ (r.pc = "load"
                 /\ (rf'[p].pc = "await"
                       \/ (rf'[p].pc = "done" /\ rf'[p].res = "ok")))
                => Domains'[r.name] \subseteq ReachedNames(r.view)]_vars

\* A load of a stream with lines after its tenth failing line has installed
\* its set.
C25_Witness ==
  \E p \in Procs :
    /\ rf[p].pc = "await"
    /\ rf[p].view = CapStream
    /\ rf[p].st.failures = maxFailures
    /\ rf[p].i = 2 * maxFailures
    /\ Domains[rf[p].name] = {<<"a">>}

(***************************************************************************)
(* C26.                                                                    *)
(***************************************************************************)
\* C26: while a load runs, its good-line and failure counts are the numbers
\* of processed lines that normalize and that fail to (empty lines and
\* comments count as neither); and the set a successful load installs is
\* exactly the normalized names of the processed lines that are not empty,
\* are no comment and normalize, so it has at most as many members as there
\* were good lines.
C26_InstalledIsNormalizedGoodLines ==
  [][\A p \in Procs :
       LET r == rf[p]
           ls == ScanLines(r.view)
           done == 1..r.i
           good == {j \in done : IsGoodLine(ls[j])}
           bad == {j \in done : IsFailingLine(ls[j])}
       IN  r.pc = "load" =>
             /\ r.st.goodLines = Cardinality(good)
             /\ r.st.failures = Cardinality(bad)
             /\ (rf'[p].pc = "await"
                   \/ (rf'[p].pc = "done" /\ rf'[p].res = "ok"))
                  => /\ Domains'[r.name] = {NormalizeDomainName(ls[j]) : j \in good}
                     /\ Cardinality(Domains'[r.name]) <= r.st.goodLines]_vars

\* A cached file with an upper-case name, a comment, a failing line and a
\* last line without newline has been loaded.
C26_Witness ==
  \E p \in Procs, n \in Names :
    /\ rf[p].pc = "done"
    /\ rf[p].res = "ok"
    /\ rf[p].name = n
    /\ dbDisk[n] = FileOf(MixedBytes)
    /\ Domains[n] = {<<"a">>, <<"c">>}

(***************************************************************************)
(* The scheduler on a longer clock, so that a refresh run from the ticker  *)
(* can last as long as the interval.                                       *)
(***************************************************************************)
MaxTimerClock == 3

TimerInit ==
  /\ SchedInit
  /\ srcKind = [n \in Names |-> "urls"]
  /\ checkpoints = [n \in CpNames |-> IF n \in Names THEN 0 ELSE 1]

\* The wall clock advances, up to MaxTimerClock.
TimerTick ==
  /\ ~crashed
  /\ now < MaxTimerClock
  /\ now' = now + 1
  /\ UNCHANGED <<cfgVars, drvVars, diskVars, setupVars, engVars, chanVars, updVars,
                 userVars, checkpoints, crashed, Domains, rf, wr, installed>>

TimerNext ==
  \/ \E p \in Procs : WriterBegins(p)
  \/ \E p \in Procs : WriterOpens(p)
  \/ \E p \in Procs : LoaderScans(p)
  \/ \E p \in Procs : LoaderEnds(p)
  \/ \E p \in Procs : WriterEnds(p)
  \/ \E p \in Procs : WriterAborts(p)
  \/ \E n \in Names : UpdaterStart(n)
  \/ \E n \in Names : UpdaterFire(n)
  \/ \E n \in Names : UpdaterAfterRefresh(n)
  \/ \E n \in Names : UpdaterSend(n)
  \/ CheckpointWriter
  \/ TimerTick

SpecTimer == TimerInit /\ [][TimerNext]_vars

(***************************************************************************)
(* C27.                                                                    *)
(***************************************************************************)
\* C27: the first refresh of an updater never starts before the checkpoint's
\* last_updated plus the refresh interval; and when a refresh step finishes,
\* the next one is not due before a full refresh interval from that moment,
\* whatever the duration of the refresh.
C27_FullIntervalAfterEachRefresh ==
  [][\A n \in Names :
       /\ (upc[n] = "wait" /\ upc'[n] = "run" /\ ~ticking[n])
            => now >= checkpoints[n] + RefreshInterval
       /\ (upc[n] \in {"run", "send"} /\ upc'[n] = "wait")
            => due'[n] >= now + RefreshInterval]_vars

(***************************************************************************)
(* Construction alone, also from a checkpoints file that has entries of    *)
(* the configured names.                                                   *)
(***************************************************************************)
SetupInit ==
  /\ EngineInitFrom(SetupCheckpointDocs)
  /\ normIn = <<>>
  /\ normOut = NotCalled
  /\ nm = NoNameCall
  /\ dl = NoDownload

SetupNext ==
  \/ NewDomainDb
  \/ \E n \in Names : SetupIter(n)
  \/ SetupAfterLoad
  \/ SetupSaveCheckpoints
  \/ SetupSpawn
  \/ \E p \in Procs : WriterBegins(p)
  \/ \E p \in Procs : WriterOpens(p)
  \/ \E p \in Procs : LoaderScans(p)
  \/ \E p \in Procs : LoaderEnds(p)
  \/ \E p \in Procs : WriterEnds(p)
  \/ \E p \in Procs : WriterAborts(p)
  \/ Close
  \/ Tick

SpecSetup == SetupInit /\ [][SetupNext]_vars

(***************************************************************************)
(* C28.                                                                    *)
(***************************************************************************)
\* C28: when setup saves the checkpoints, the document has an entry for
\* every configured name (the time of this initialization's download, else
\* the value read from the file, else 0) and the entries of other names as
\* they were read; the file then holds that whole document; the file is
\* written by that step only, and no updater and no checkpoint writer is
\* started before it.
C28_CheckpointsPopulatedThenSaved ==
  [][/\ (spc = "loop" /\ spc' = "spawn") =>
          LET prev == ReadCheckpoints(cpDisk).doc
          IN  /\ \A n \in Names :
                   checkpoints'[n] =
                     IF LastUpdatedUnix[n] # 0 THEN LastUpdatedUnix[n]
                     ELSE IF prev[n] # NoEntry THEN prev[n]
                     ELSE 0
              /\ \A n \in CpNames \ Names : checkpoints'[n] = prev[n]
              /\ ReadCheckpoints(cpDisk').err = ""
              /\ ReadCheckpoints(cpDisk').doc = checkpoints'
              /\ cw = "off"
              /\ \A n \in Names : upc[n] = "off"
     /\ cpDisk' # cpDisk => (spc = "loop" /\ spc' = "spawn")
     /\ (cw' = "on" \/ \E n \in Names : upc'[n] # "off") =>
          /\ spc \in {"spawn", "end"}
          /\ \A n \in Names : checkpoints'[n] # NoEntry
          /\ ReadCheckpoints(cpDisk').doc = checkpoints']_vars

\* Setup has run to its end on a file that had entries of a configured and
\* of an unconfigured name.
C28_Witness ==
  /\ spc = "end"
  /\ cw = "on"
  /\ alreadyHad
  /\ now = 1
  /\ \A n \in Names : checkpoints[n] = 2 /\ upc[n] = "start"
  /\ checkpoints[OtherName] = 1

(***************************************************************************)
(* C29.                                                                    *)
(***************************************************************************)
\* C29: the checkpoint writer takes the updates in the order they were sent
\* (a send appends, the writer takes the first); taking {N, t} sets N's
\* entry to t, changes no other entry and writes the whole document, or the
\* write fails and the file stays; the writer goes on after a failed write
\* and ends only when the channel is closed and empty; and under fairness
\* every update in the channel is eventually taken and written, and the
\* writer ends once the channel is closed and drained.
C29_WriterAppliesEveryUpdate ==
  /\ [][/\ Len(updates') > Len(updates) =>
             SubSeq(updates', 1, Len(updates)) = updates
        /\ Len(updates') < Len(updates) =>
             /\ updates' = Tail(updates)
             /\ checkpoints'[Head(updates).name] = Head(updates).ts
             /\ \A n \in CpNames \ {Head(updates).name} :
                  checkpoints'[n] = checkpoints[n]
             /\ \/ cpDisk' = cpDisk
                \/ /\ ReadCheckpoints(cpDisk').err = ""
                   /\ ReadCheckpoints(cpDisk').doc = checkpoints'
             /\ cw' = "on"
        /\ (cw = "on" /\ cw' # "on") => (chanClosed /\ updates = <<>>)]_vars
  /\ \A k \in 1..UpdatesCap : (Len(updates) = k) ~> (Len(updates) < k)
  /\ (cw = "on" /\ chanClosed /\ updates = <<>>) ~> (cw = "done")

(***************************************************************************)
(* One DownloadAndLoadDatabase call on a URL-mode source, goroutine by     *)
(* goroutine: the URL producer of openDataSource, the loader run by the    *)
(* caller, and the storage writer, joined by two io.Pipes (a Write waits   *)
(* until a Read has taken its bytes or the read end is closed).            *)
(***************************************************************************)
TenBad == Repeat(BodyBad, maxFailures)
PipeBodies == {<<>>, BodyA, BodyB, TenBad, CapBytes}
PipeOuts == [1..NumUrls -> UrlOutcomes(PipeBodies)]
NewPipe == [data |-> <<>>, rclosed |-> FALSE, wclosed |-> ""]

PipeInit ==
  /\ EngineInitFrom(InitCheckpointDocs)
  /\ cpDisk = NoFile
  /\ opts = [disableDl |-> FALSE, background |-> FALSE]
  /\ srcKind = [n \in Names |-> "urls"]
  /\ dbDisk = [n \in Names |-> NoFile]
  /\ normIn = <<>>
  /\ normOut = NotCalled
  /\ nm = NoNameCall
  /\ \E outs \in PipeOuts :
       dl = [outs |-> outs, k |-> 1, ppc |-> "req", pfail |-> 0,
             urlPipe |-> NewPipe,
             lpc |-> "scan", buf |-> <<>>, eof |-> FALSE, chunk |-> <<>>,
             st |-> NewLoadState, installed |-> FALSE,
             storePipe |-> NewPipe,
             wpc |-> "start", file |-> <<>>, writeErrChan |-> "none",
             ret |-> ""]

PipeFrame ==
  UNCHANGED <<normIn, normOut, nm, cpRead, cpLast, cfgVars, diskVars,
              setupVars, engVars, chanVars, updVars, userVars, now,
              checkpoints, crashed, Domains, rf, wr, installed>>

\* The producer moves on to the next URL, or to closing the pipe.
AfterUrl(d) ==
  [d EXCEPT !.k = @ + 1,
            !.ppc = IF d.k = Len(d.outs) THEN "close" ELSE "req"]

\* httpClient.Do and the start of io.Copy(pipeWriter, resp.Body) for URL k.
ProducerRequest ==
  LET o == dl.outs[dl.k]
  IN  /\ dl.lpc # "none"
      /\ dl.ppc = "req"
      /\ dl' =
           IF o.kind \in {"neterr", "status"}
           THEN [dl EXCEPT !.pfail = @ + 1, !.ppc = "nl"]
           ELSE IF o.written = <<>>
           THEN [dl EXCEPT !.pfail = @ + (IF o.kind = "copyerr" THEN 1 ELSE 0),
                           !.ppc = "nl"]
           ELSE IF dl.urlPipe.rclosed
           THEN [dl EXCEPT !.pfail = @ + 1, !.ppc = "nl"]
           ELSE [dl EXCEPT !.urlPipe.data = o.written, !.ppc = "body"]
      /\ PipeFrame

\* The Write of io.Copy returns: its bytes were read, or the read end was
\* closed (the copy fails).
ProducerBodyDone ==
  LET o == dl.outs[dl.k]
      cut == dl.urlPipe.data # <<>>
  IN  /\ dl.lpc # "none"
      /\ dl.ppc = "body"
      /\ dl.urlPipe.data = <<>> \/ dl.urlPipe.rclosed
      /\ dl' = [dl EXCEPT
                  !.pfail = @ + (IF cut \/ o.kind = "copyerr" THEN 1 ELSE 0),
                  !.urlPipe.data = <<>>,
                  !.ppc = "nl"]
      /\ PipeFrame

\* pipeWriter.Write([]byte("\n")) after every URL; its result is ignored.
ProducerNewline ==
  /\ dl.lpc # "none"
  /\ dl.ppc = "nl"
  /\ dl' = IF dl.urlPipe.rclosed THEN AfterUrl(dl)
           ELSE [dl EXCEPT !.urlPipe.data = <<NL>>, !.ppc = "nlwait"]
  /\ PipeFrame

ProducerNewlineDone ==
  /\ dl.lpc # "none"
  /\ dl.ppc = "nlwait"
  /\ dl.urlPipe.data = <<>> \/ dl.urlPipe.rclosed
  /\ dl' = AfterUrl([dl EXCEPT !.urlPipe.data = <<>>])
  /\ PipeFrame

\* pipeWriter.CloseWithError when every URL failed, else pipeWriter.Close;
\* the producer goroutine ends.
ProducerClose ==
  /\ dl.lpc # "none"
  /\ dl.ppc = "close"
  /\ dl' = [dl EXCEPT
              !.urlPipe.wclosed = IF dl.pfail = Len(dl.outs) THEN "err" ELSE "eof",
              !.ppc = "done"]
  /\ PipeFrame

\* The scanner has a token for the loop, which processes it unless the
\* failure count has reached maxFailures.
LoopOnToken(d, token) ==
  IF d.st.failures < maxFailures
  THEN [d EXCEPT !.st = LoadLineStep(@, token)]
  ELSE [d EXCEPT !.lpc = "check"]

\* scanner.Scan() and one turn of the loop of loadDomainsFromReader.  The
\* scanner takes a line from its buffer; when it has no whole line it reads
\* from the tee reader, which reads the source pipe and then writes what it
\* read to the storage pipe.
PipeLoaderScan ==
  LET nls == {i \in 1..Len(dl.buf) : dl.buf[i] = NL}
  IN  /\ dl.lpc = "scan"
      /\ IF nls # {}
         THEN dl' = LoopOnToken(
                      [dl EXCEPT !.buf = SubSeq(@, Min(nls) + 1, Len(@))],
                      dropCR(SubSeq(dl.buf, 1, Min(nls) - 1)))
         ELSE IF dl.eof
         THEN dl' = IF dl.buf # <<>>
                    THEN LoopOnToken([dl EXCEPT !.buf = <<>>], dropCR(dl.buf))
                    ELSE [dl EXCEPT !.lpc = "check"]
         ELSE IF dl.urlPipe.data # <<>>
         THEN dl' = IF dl.storePipe.rclosed
                    THEN [dl EXCEPT !.urlPipe.data = <<>>, !.eof = TRUE]
                    ELSE [dl EXCEPT !.urlPipe.data = <<>>,
                                    !.chunk = dl.urlPipe.data,
                                    !.storePipe.data = dl.urlPipe.data,
                                    !.lpc = "tee"]
         ELSE /\ dl.urlPipe.wclosed # ""
              /\ dl' = [dl EXCEPT !.eof = TRUE]
      /\ PipeFrame

\* The tee's Write to the storage pipe returns: the writer took the bytes,
\* or it closed its end (the scanner then holds a read error and stops).
PipeLoaderTeeDone ==
  /\ dl.lpc = "tee"
  /\ dl.storePipe.data = <<>> \/ dl.storePipe.rclosed
  /\ dl' = IF dl.storePipe.data = <<>>
           THEN [dl EXCEPT !.buf = @ \o dl.chunk, !.chunk = <<>>, !.lpc = "scan"]
           ELSE [dl EXCEPT !.storePipe.data = <<>>, !.chunk = <<>>,
                           !.eof = TRUE, !.lpc = "scan"]
  /\ PipeFrame

\* A return that leaves the source reader open.
DeferredReaderCloseNever(pipe) == pipe

\* defer: if reader != nil { reader.Close() }
DeferredReaderClose(pipe) == [pipe EXCEPT !.rclosed = TRUE]

\* After the loop: on too many failures the storage pipe is closed with the
\* error and the call returns; else the set is installed, the pipe is closed
\* and the call waits for the writer.
PipeLoaderCheck ==
  /\ dl.lpc = "check"
  /\ dl' = IF TooManyFailures(dl.st)
           THEN [dl EXCEPT !.storePipe.wclosed = "err",
                           !.ret = "parse",
                           !.urlPipe = DeferredReaderClose(@),
                           !.lpc = "returned"]
           ELSE [dl EXCEPT !.storePipe.wclosed = "eof",
                           !.installed = TRUE,
                           !.lpc = "await"]
  /\ PipeFrame

\* err := <-writeErrChan, and the return.
PipeAwaitWriter ==
  /\ dl.lpc = "await"
  /\ dl.writeErrChan # "none"
  /\ dl' = [dl EXCEPT !.ret = IF dl.writeErrChan = "ok" THEN "ok" ELSE "write",
                      !.urlPipe = DeferredReaderClose(@),
                      !.lpc = "returned"]
  /\ PipeFrame

\* WriteDatabase up to io.Copy: when the rename or the open fails it returns,
\* its deferred function closes the input, and the goroutine sends the error.
PipeWriterStart(fault) ==
  /\ dl.lpc # "none"
  /\ dl.wpc = "start"
  /\ dl' = IF fault
           THEN [dl EXCEPT !.storePipe.rclosed = TRUE, !.writeErrChan = "err",
                           !.wpc = "done"]
           ELSE [dl EXCEPT !.wpc = "copy"]
  /\ PipeFrame

\* io.Copy(file, input) reads what the tee wrote; a failed write to the file
\* ends WriteDatabase with an error.
PipeWriterCopy(fault) ==
  /\ dl.lpc # "none"
  /\ dl.wpc = "copy"
  /\ dl.storePipe.data # <<>>
  /\ dl' = IF fault
           THEN [dl EXCEPT !.storePipe.data = <<>>, !.storePipe.rclosed = TRUE,
                           !.writeErrChan = "err", !.wpc = "done"]
           ELSE [dl EXCEPT !.storePipe.data = <<>>,
                           !.file = @ \o dl.storePipe.data]
  /\ PipeFrame

\* io.Copy sees the pipe closed: WriteDatabase returns nil or the error, and
\* the goroutine sends it on writeErrChan (buffered) and ends.
PipeWriterEnd ==
  /\ dl.lpc # "none"
  /\ dl.wpc = "copy"
  /\ dl.storePipe.data = <<>>
  /\ dl.storePipe.wclosed # ""
  /\ dl' = [dl EXCEPT !.storePipe.rclosed = TRUE,
                      !.writeErrChan = IF dl.storePipe.wclosed = "eof"
                                       THEN "ok" ELSE "err",
                      !.wpc = "done"]
  /\ PipeFrame

PipeNext ==
  \/ ProducerRequest
  \/ ProducerBodyDone
  \/ ProducerNewline
  \/ ProducerNewlineDone
  \/ ProducerClose
  \/ PipeLoaderScan
  \/ PipeLoaderTeeDone
  \/ PipeLoaderCheck
  \/ PipeAwaitWriter
  \/ \E fault \in BOOLEAN : PipeWriterStart(fault)
  \/ \E fault \in BOOLEAN : PipeWriterCopy(fault)
  \/ PipeWriterEnd

\* While some goroutine can take a step, one of them does (a blocked
\* goroutine has no step); every HTTP call and disk operation returns.
PipeFairness == WF_vars(PipeNext)

SpecPipes == PipeInit /\ [][PipeNext]_vars /\ PipeFairness

(***************************************************************************)
(* C30.                                                                    *)
(***************************************************************************)
PipesTerminated ==
  dl.lpc = "returned" /\ dl.ppc = "done" /\ dl.wpc = "done"

\* C30: every DownloadAndLoadDatabase call returns and both goroutines it
\* started, the URL producer and the storage writer, end, whatever the URLs
\* deliver and whether the load succeeds, fails its check, stops early or the
\* storage write fails; once ended they stay ended, and no goroutine is left
\* waiting on a pipe.
C30_CallAndGoroutinesEnd == <>[]PipesTerminated

\* The loader stopped after ten failures, the call returned its parse error
\* while the producer was still writing the next body, and the producer and
\* the writer have ended.
C30_Witness ==
  /\ PipesTerminated
  /\ dl.ret = "parse"
  /\ dl.st.failures = maxFailures
  /\ dl.outs[1].written = TenBad
  /\ dl.outs[2] = [kind |-> "ok", written |-> BodyA]
  /\ dl.pfail = 1
  /\ dl.file = TenBad \o <<NL>>

LifeCheckpointDocs ==
  {[n \in CpNames |-> IF n \in Names THEN t ELSE 1] : t \in {NoEntry, 0, 1}}

LifeInit ==
  /\ EngineInitFrom(LifeCheckpointDocs)
  /\ dbDisk \in [Names -> {NoFile, FileOf(MixedBytes)}]
  /\ normIn = <<>>
  /\ normOut = NotCalled
  /\ nm = NoNameCall
  /\ dl = NoDownload

LifeNext ==
  \/ NewDomainDb
  \/ \E n \in Names : SetupIter(n)
  \/ SetupAfterLoad
  \/ SetupSaveCheckpoints
  \/ SetupSpawn
  \/ \E p \in Procs : WriterBegins(p)
  \/ \E p \in Procs : WriterOpens(p)
  \/ \E p \in Procs : LoaderScans(p)
  \/ \E p \in Procs : LoaderEnds(p)
  \/ \E p \in Procs : WriterEnds(p)
  \/ \E p \in Procs : WriterAborts(p)
  \/ \E n \in Names : UpdaterStart(n)
  \/ \E n \in Names : UpdaterFire(n)
  \/ \E n \in Names : UpdaterAfterRefresh(n)
  \/ \E n \in Names : UpdaterSend(n)
  \/ CheckpointWriter
  \/ Close
  \/ Tick

SpecLife == LifeInit /\ [][LifeNext]_vars

(***************************************************************************)
(* C32.                                                                    *)
(***************************************************************************)
\* C32: with a clock that does not go back (the times of the file read at
\* startup included), the LastUpdatedUnix of a name in the checkpoints
\* document never decreases, from the value read at startup on; it changes
\* only when setup populates the document after a download of that name at
\* startup, or when the checkpoint writer applies an update of that name.
\* (Setup gives a name that had no entry and was loaded from its cache the
\* entry 0.)
C32_LastUpdatedNeverDecreases ==
  [][\A n \in CpNames :
       /\ checkpoints[n] # NoEntry => checkpoints'[n] >= checkpoints[n]
       /\ checkpoints'[n] # checkpoints[n]
            => \/ spc = "new" /\ checkpoints = EmptyCheckpoints
               \/ /\ spc = "loop" /\ todo = {} /\ cur = ""
                  /\ n \in Names
                  /\ IF LastUpdatedUnix[n] # 0
                     THEN checkpoints'[n] = LastUpdatedUnix[n]
                     ELSE checkpoints[n] = NoEntry /\ checkpoints'[n] = 0
               \/ /\ cw = "on" /\ updates # <<>>
                  /\ Head(updates).name = n
                  /\ checkpoints'[n] = Head(updates).ts
                  /\ updates' = Tail(updates)]_vars

\* A name was downloaded at startup at time 1, and the checkpoint writer has
\* applied an update of it that a scheduled refresh sent at a later time.
C32_Witness ==
  \E n \in Names :
    /\ LastUpdatedUnix[n] = 1
    /\ checkpoints[n] > 1
    /\ cw = "on"
    /\ updates = <<>>
    /\ upc[n] = "wait"

=============================================================================
